---------------------------- MODULE Spec2Model ----------------------------
(***************************************************************************)
(* A model of the catharsis library store: the Libraries snapshot and its  *)
(* dependency queries (src/models/libraries.js), the dependency checks of  *)
(* the check command (src/unnamed/part_004), the Importer                  *)
(* (src/models/importer.js) and the Exporter (src/models/hub-registry.js). *)
(*                                                                         *)
(* A JavaScript string is a sequence of tokens.  A machine name is one     *)
(* token; a digit, ".", " " and "-" are one token each.  So                *)
(* "H5P.A 1.20" is <<"H5P.A", " ", "1", ".", "2", "0">>, and split,        *)
(* startsWith, Number and template formatting work on the tokens.          *)
(***************************************************************************)
EXTENDS Integers, Sequences, FiniteSets, TLC

VARIABLES
    disk,      \* the installed-packages directory: a set of directories
    data,      \* Libraries.data: the snapshot, an array of library.json
    cl,        \* the running compileTotalDependencyList call
    out,       \* what the last finished query returned
    scratch,   \* the scratch directories under assets/temp
    imp,       \* the running Importer.import call
    exports,   \* the files of the exports directory
    upd,       \* the lock file, the hub registry and the running updateServedData calls
    manifest   \* manifest.json: the file, and Manifest.data of the last Manifest object

vars == <<disk, data, cl, out, scratch, imp, exports, upd, manifest>>

----------------------------------------------------------------------------
(* Strings *)

DigitChars == <<"0", "1", "2", "3", "4", "5", "6", "7", "8", "9">>

IsDigit(c) == \E i \in 1..Len(DigitChars) : DigitChars[i] = c

DigitValue(c) == (CHOOSE i \in 1..Len(DigitChars) : DigitChars[i] = c) - 1

\* Number.prototype.toString / template formatting of a non-negative integer.
RECURSIVE NumToStr(_)
NumToStr(n) ==
    IF n < Len(DigitChars)
    THEN <<DigitChars[n + 1]>>
    ELSE NumToStr(n \div Len(DigitChars)) \o <<DigitChars[(n % Len(DigitChars)) + 1]>>

\* Number(s) for a string of digits; NaN is modelled as -1.  Number("") is 0.
RECURSIVE StrToNum(_)
StrToNum(s) ==
    IF s = <<>> THEN 0
    ELSE IF \E i \in 1..Len(s) : ~IsDigit(s[i]) THEN -1
    ELSE StrToNum(SubSeq(s, 1, Len(s) - 1)) * Len(DigitChars) + DigitValue(s[Len(s)])

\* String.prototype.split(sep) for a one-token separator.
RECURSIVE Split(_, _)
Split(s, sep) ==
    IF \A i \in 1..Len(s) : s[i] # sep
    THEN <<s>>
    ELSE LET i == CHOOSE j \in 1..Len(s) :
                      s[j] = sep /\ \A k \in 1..(j - 1) : s[k] # sep
         IN  <<SubSeq(s, 1, i - 1)>> \o Split(SubSeq(s, i + 1, Len(s)), sep)

\* String.prototype.startsWith.
StartsWith(s, prefix) ==
    /\ Len(prefix) <= Len(s)
    /\ SubSeq(s, 1, Len(prefix)) = prefix

\* Array.prototype.join(sep).
RECURSIVE Join(_, _)
Join(parts, sep) ==
    IF parts = <<>> THEN <<>>
    ELSE IF Len(parts) = 1 THEN parts[1]
    ELSE parts[1] \o <<sep>> \o Join(Tail(parts), sep)

\* Arrays

Includes(arr, x) == \E i \in 1..Len(arr) : arr[i] = x

Range(arr) == {arr[i] : i \in 1..Len(arr)}

\* [...new Set(arr)] replaced by arr itself.
Repeated(arr) == arr

\* [...new Set(arr)]: the first occurrence of each element, in order.
RECURSIVE Unique(_)
Unique(arr) ==
    IF arr = <<>> THEN <<>>
    ELSE LET init == Unique(SubSeq(arr, 1, Len(arr) - 1))
             last == arr[Len(arr)]
         IN  IF Includes(init, last) THEN init ELSE Append(init, last)

\* Array.prototype.flat of an array of arrays.
RECURSIVE Flatten(_)
Flatten(arrs) ==
    IF arrs = <<>> THEN <<>> ELSE arrs[1] \o Flatten(Tail(arrs))

\* All the orders in which the elements of a finite set can be listed.
RECURSIVE Listings(_)
Listings(S) ==
    IF S = {} THEN {<<>>}
    ELSE UNION {{<<x>> \o l : l \in Listings(S \ {x})} : x \in S}

----------------------------------------------------------------------------
(* services/utils.js *)

\* v1Parts[i] || 0: a missing, NaN or zero component counts as 0.
PartOrZero(parts, i) ==
    IF i > Len(parts) THEN 0
    ELSE IF StrToNum(parts[i]) < 0 THEN 0
    ELSE StrToNum(parts[i])

\* compareVersions with a loop that ends with the shorter of the two arrays.
RECURSIVE CompareFromShorter(_, _, _)
CompareFromShorter(p1, p2, i) ==
    IF i > (IF Len(p1) < Len(p2) THEN Len(p1) ELSE Len(p2)) THEN 0
    ELSE IF PartOrZero(p1, i) > PartOrZero(p2, i) THEN 1
    ELSE IF PartOrZero(p1, i) < PartOrZero(p2, i) THEN -1
    ELSE CompareFromShorter(p1, p2, i + 1)

RECURSIVE CompareFrom(_, _, _)
CompareFrom(p1, p2, i) ==
    IF i > (IF Len(p1) > Len(p2) THEN Len(p1) ELSE Len(p2)) THEN 0
    ELSE IF PartOrZero(p1, i) > PartOrZero(p2, i) THEN 1
    ELSE IF PartOrZero(p1, i) < PartOrZero(p2, i) THEN -1
    ELSE CompareFrom(p1, p2, i + 1)

compareVersions(v1, v2) == CompareFrom(Split(v1, "."), Split(v2, "."), 1)

\* parts[i] after .map(Number): NaN is -1, undefined (a missing index) is -2.
NumPart(parts, i) == IF i > Len(parts) THEN -2 ELSE StrToNum(parts[i])

\* a !== b on numbers that may be NaN (never equal to anything) or undefined.
StrictNotEqual(a, b) == a = -1 \/ b = -1 \/ a # b

\* isNewerPatchVersion without the comparison of the minor versions.
isNewerPatchVersionOfMajor(old, candidate) ==
    IF StrictNotEqual(NumPart(Split(candidate, "."), 1), NumPart(Split(old, "."), 1))
    THEN FALSE
    ELSE /\ NumPart(Split(candidate, "."), 3) >= 0
         /\ NumPart(Split(old, "."), 3) >= 0
         /\ NumPart(Split(candidate, "."), 3) > NumPart(Split(old, "."), 3)

isNewerPatchVersion(old, candidate) ==
    LET oldParts == Split(old, ".")
        candidateParts == Split(candidate, ".")
    IN  IF \/ StrictNotEqual(NumPart(candidateParts, 1), NumPart(oldParts, 1))
           \/ StrictNotEqual(NumPart(candidateParts, 2), NumPart(oldParts, 2))
        THEN FALSE
        ELSE /\ NumPart(candidateParts, 3) >= 0
             /\ NumPart(oldParts, 3) >= 0
             /\ NumPart(candidateParts, 3) > NumPart(oldParts, 3)

----------------------------------------------------------------------------
(* services/h5p-utils.js *)

\* null and undefined.  No string of the model is empty, so the empty string
\* stands for both.
Null == <<>>

\* An optional value (a library.json or undefined) is a sequence of length 0 or 1.
Undefined == <<>>
Some(x) == <<x>>
IsDefined(m) == m # <<>>
The(m) == m[1]

\* `${major}.${minor}`
MinorVersionString(major, minor) == NumToStr(major) \o <<".">> \o NumToStr(minor)

\* `${major}.${minor}.${patch}`
VersionString(lib) ==
    MinorVersionString(lib.majorVersion, lib.minorVersion)
        \o <<".">> \o NumToStr(lib.patchVersion)

\* `${dependency.machineName} ${dependency.majorVersion}.${dependency.minorVersion}`
UberNameOf(dep) ==
    dep.machineName \o <<" ">> \o MinorVersionString(dep.majorVersion, dep.minorVersion)

decomposeUberName(uberName) ==
    LET parts == Split(uberName, " ")
        version == IF Len(parts) >= 2 THEN Split(parts[2], ".") ELSE <<>>
    IN  [machineName  |-> parts[1],
         majorVersion |-> IF Len(version) >= 1 THEN version[1] ELSE Null,
         minorVersion |-> IF Len(version) >= 2 THEN version[2] ELSE Null,
         patchVersion |-> IF Len(version) >= 3 THEN version[3] ELSE Null]

decomposeLibraryFileName(fileName) ==
    LET parts == Split(fileName, "-")
        version == Split(parts[Len(parts)], ".")
    IN  [machineName  |-> Join(SubSeq(parts, 1, Len(parts) - 1), "-"),
         majorVersion |-> IF Len(version) >= 1 THEN version[1] ELSE Null,
         minorVersion |-> IF Len(version) >= 2 THEN version[2] ELSE Null,
         patchVersion |-> IF Len(version) >= 3 THEN version[3] ELSE Null]

\* The machine-name tokens that /H5P\.[a-zA-Z]+/ matches.
H5PNameTokens == {"H5P.R", "H5P.A", "H5P.B", "H5P.C", "H5P.X"}

\* /H5P\.[a-zA-Z]+ [0-9]+\.[0-9]+/.test(option): the pattern is not anchored.
MatchesUberName(option) ==
    \E i \in 1..Len(option) :
        /\ option[i] \in H5PNameTokens
        /\ i + 4 <= Len(option)
        /\ option[i + 1] = " "
        /\ \E j \in (i + 2)..(Len(option) - 2) :
              /\ \A k \in (i + 2)..j : IsDigit(option[k])
              /\ option[j + 1] = "."
              /\ IsDigit(option[j + 2])

\* The options of one semantics chunk that name a library.
OptionsOf(chunk) ==
    IF IsDefined(chunk.options)
    THEN SelectSeq(The(chunk.options), MatchesUberName)
    ELSE <<>>

\* search(): a chunk's own options first, then its nested fields in order.
RECURSIVE SearchSemantics(_)
SearchSemantics(chunks) ==
    IF chunks = <<>> THEN <<>>
    ELSE OptionsOf(chunks[1])
             \o SearchSemantics(chunks[1].fields)
             \o SearchSemantics(Tail(chunks))

findH5PDependenciesInSemantics(semantics) == SearchSemantics(semantics)

\* getLibraryFolderNames(basepath) in the order readdirSync lists them.
getLibraryFolderNames(listing) == [i \in 1..Len(listing) |-> listing[i].folderName]

\* existsSync(path.join(basepath, folder, file)) for a directory of the store.
FolderExists(dirs, folder) == \E d \in dirs : d.folderName = folder

SemanticsFileExists(dirs, folder) ==
    \E d \in dirs : d.folderName = folder /\ IsDefined(d.semantics)

ReadSemantics(dirs, folder) ==
    The((CHOOSE d \in dirs : d.folderName = folder /\ IsDefined(d.semantics)).semantics)

----------------------------------------------------------------------------
(* models/libraries.js *)

\* Libraries.read: the library.json of every library folder, in scan order.
read(listing) == [i \in 1..Len(listing) |-> listing[i].libraryJson]

\* '0.0.0', which the reduce of getLibraryJson compares every version with:
\* it reads latestLibrary.version, and a library.json has no such property.
ZeroVersion == <<"0", ".", "0", ".", "0">>

\* The reduce of getLibraryJson over the libraries of one machine name.
RECURSIVE ReduceLatest(_, _)
ReduceLatest(list, latestLibrary) ==
    IF list = <<>> THEN latestLibrary
    ELSE LET library == list[1]
             currentVersion == VersionString(library)
         IN  ReduceLatest(
                 Tail(list),
                 IF \/ ~IsDefined(latestLibrary)
                    \/ compareVersions(currentVersion, ZeroVersion) > 0
                 THEN Some(library)
                 ELSE latestLibrary)

\* getLibraryJson that goes on to the latest library also when exact is set.
getLibraryJsonInexact(libs, uberName, exact) ==
    LET d == decomposeUberName(uberName)
        found ==
            IF d.majorVersion # Null /\ d.minorVersion # Null
            THEN SelectSeq(libs, LAMBDA library :
                     /\ library.machineName = d.machineName
                     /\ NumToStr(library.majorVersion) = d.majorVersion
                     /\ NumToStr(library.minorVersion) = d.minorVersion)
            ELSE <<>>
    IN  IF found # <<>> THEN Some(found[1])
        ELSE ReduceLatest(
                 SelectSeq(libs, LAMBDA library : library.machineName = d.machineName),
                 Undefined)

getLibraryJson(libs, uberName, exact) ==
    LET d == decomposeUberName(uberName)
        found ==
            IF d.majorVersion # Null /\ d.minorVersion # Null
            THEN SelectSeq(libs, LAMBDA library :
                     /\ library.machineName = d.machineName
                     /\ NumToStr(library.majorVersion) = d.majorVersion
                     /\ NumToStr(library.minorVersion) = d.minorVersion)
            ELSE <<>>
    IN  IF found # <<>> THEN Some(found[1])
        ELSE IF exact THEN Undefined
        ELSE ReduceLatest(
                 SelectSeq(libs, LAMBDA library : library.machineName = d.machineName),
                 Undefined)

getLatestVersion(libs, machineName) ==
    LET libraryJson == getLibraryJson(libs, machineName, FALSE)
    IN  IF ~IsDefined(libraryJson) THEN Undefined
        ELSE Some(VersionString(The(libraryJson)))

\* getFolderPath: the folder of the latest library of the machine name, in
\* the form machineName-major.minor, if it exists; the version asked for is
\* not looked at.
FolderOfLatest(dirs, machineName, libraryJson) ==
    IF ~IsDefined(libraryJson) THEN Undefined
    ELSE IF FolderExists(dirs, machineName \o <<"-">>
                \o MinorVersionString(The(libraryJson).majorVersion,
                                      The(libraryJson).minorVersion))
    THEN Some(machineName \o <<"-">>
                \o MinorVersionString(The(libraryJson).majorVersion,
                                      The(libraryJson).minorVersion))
    ELSE Undefined

getFolderPath(libs, dirs, uberName) ==
    FolderOfLatest(dirs, decomposeUberName(uberName).machineName,
                   getLibraryJson(libs, decomposeUberName(uberName).machineName, FALSE))

\* A result that may be a thrown TypeError instead of a value.
Thrown == [thrown |-> TRUE, value |-> <<>>]
Returned(v) == [thrown |-> FALSE, value |-> v]

getUbernameForMinorVersion(libs, uberName) ==
    LET d == decomposeUberName(uberName)
    IN  IF d.majorVersion = Null \/ d.minorVersion = Null
        THEN LET library == getLibraryJson(libs, uberName, FALSE)
             IN  IF ~IsDefined(library) THEN Thrown
                 ELSE Returned(d.machineName \o <<" ">> \o
                          MinorVersionString(The(library).majorVersion,
                                             The(library).minorVersion))
        ELSE Returned(d.machineName \o <<" ">> \o d.majorVersion \o <<".">> \o d.minorVersion)

SemanticsIn(dirs, d, libraryJson) ==
    IF ~IsDefined(libraryJson) THEN Undefined
    ELSE LET lib == The(libraryJson)
             folder == d.machineName \o <<"-">>
                 \o (IF d.majorVersion # Null THEN d.majorVersion
                     ELSE NumToStr(lib.majorVersion))
                 \o <<".">>
                 \o (IF d.minorVersion # Null THEN d.minorVersion
                     ELSE NumToStr(lib.minorVersion))
             fallback == d.machineName \o <<"-">> \o VersionString(lib)
         IN  IF SemanticsFileExists(dirs, folder)
             THEN Some(ReadSemantics(dirs, folder))
             ELSE IF SemanticsFileExists(dirs, fallback)
             THEN Some(ReadSemantics(dirs, fallback))
             ELSE Undefined

getSemanticsJson(libs, dirs, uberName) ==
    SemanticsIn(dirs, decomposeUberName(uberName),
                getLibraryJson(libs, decomposeUberName(uberName).machineName, FALSE))

DependencyUberNames(dependencies) ==
    [i \in 1..Len(dependencies) |-> UberNameOf(dependencies[i])]

MandatoryOf(minor, library) ==
    <<minor>>
        \o DependencyUberNames(library.preloadedDependencies)
        \o DependencyUberNames(library.editorDependencies)

OptionalOf(semantics) ==
    IF IsDefined(semantics)
    THEN findH5PDependenciesInSemantics(The(semantics))
    ELSE <<>>

DependenciesOf(minor, libraryJson, semantics, type) ==
    IF minor.thrown THEN Thrown
    ELSE IF type \in {"all", "mandatory"} /\ ~IsDefined(libraryJson)
    THEN Returned(<<>>)
    ELSE Returned(Unique(
             (IF type \in {"all", "mandatory"}
              THEN MandatoryOf(minor.value, The(libraryJson)) ELSE <<>>)
                 \o (IF type \in {"all", "optional"}
                     THEN OptionalOf(semantics) ELSE <<>>)))

\* getDependencies(uberName, { type }) with type "all", "mandatory" or "optional".
getDependencies(libs, dirs, uberName, type) ==
    DependenciesOf(getUbernameForMinorVersion(libs, uberName),
                   getLibraryJson(libs, uberName, TRUE),
                   getSemanticsJson(libs, dirs, uberName),
                   type)

\* CompileDecide with checked.push(uberNameForMinorVersion) left out.
CompileDecideNoPush(minor, myDependencies, checked, dependencies) ==
    LET pushed == dependencies \o myDependencies.value
        local == Unique(pushed)
        toCheck == SelectSeq(local, LAMBDA dependency : ~Includes(checked, dependency))
    IN  IF minor.thrown \/ myDependencies.thrown
        THEN [kind |-> "throw", checked |-> checked, pushed |-> dependencies,
              local |-> dependencies, next |-> Null,
              expanded |-> ~minor.thrown, minor |-> minor.value]
        ELSE IF Includes(checked, minor.value)
        THEN [kind |-> "return", checked |-> checked, pushed |-> dependencies,
              local |-> dependencies, next |-> Null,
              expanded |-> FALSE, minor |-> minor.value]
        ELSE [kind |-> IF Len(checked) = Len(local) THEN "return" ELSE "recurse",
              checked |-> checked, pushed |-> pushed, local |-> local,
              next |-> IF Len(checked) # Len(local) /\ toCheck # <<>>
                       THEN toCheck[1] ELSE Null,
              expanded |-> TRUE, minor |-> minor.value]

\* CompileDecide going on with dependencies[0] instead of toCheck[0].
CompileDecideNoFilter(minor, myDependencies, checked, dependencies) ==
    LET checkedAfter == Append(checked, minor.value)
        pushed == dependencies \o myDependencies.value
        local == Unique(pushed)
    IN  IF minor.thrown \/ myDependencies.thrown
        THEN [kind |-> "throw", checked |-> checked, pushed |-> dependencies,
              local |-> dependencies, next |-> Null,
              expanded |-> ~minor.thrown, minor |-> minor.value]
        ELSE IF Includes(checked, minor.value)
        THEN [kind |-> "return", checked |-> checked, pushed |-> dependencies,
              local |-> dependencies, next |-> Null,
              expanded |-> FALSE, minor |-> minor.value]
        ELSE [kind |-> IF Len(checkedAfter) = Len(local) THEN "return" ELSE "recurse",
              checked |-> checkedAfter, pushed |-> pushed, local |-> local,
              next |-> IF Len(checkedAfter) # Len(local) THEN local[1] ELSE Null,
              expanded |-> TRUE, minor |-> minor.value]

\* One activation of compileTotalDependencyList up to its return or its
\* recursive call, given what getUbernameForMinorVersion (minor) and
\* getDependencies (myDependencies) return.  `dependencies` is the caller's
\* array, which push changes; `local` is the new array the activation goes on
\* with; `expanded` tells whether the activation called getDependencies.
CompileDecide(minor, myDependencies, checked, dependencies) ==
    LET checkedAfter == Append(checked, minor.value)
        pushed == dependencies \o myDependencies.value
        local == Unique(pushed)
        toCheck == SelectSeq(local, LAMBDA dependency : ~Includes(checkedAfter, dependency))
        stop(kind, expanded) ==
            [kind |-> kind, checked |-> IF expanded THEN checkedAfter ELSE checked,
             pushed |-> dependencies, local |-> dependencies, next |-> Null,
             expanded |-> expanded, minor |-> minor.value]
        go(kind) ==
            [kind |-> kind, checked |-> checkedAfter,
             pushed |-> pushed, local |-> local,
             next |-> IF kind = "recurse" /\ toCheck # <<>> THEN toCheck[1] ELSE Null,
             expanded |-> TRUE, minor |-> minor.value]
    IN  IF minor.thrown THEN stop("throw", FALSE)
        ELSE IF Includes(checked, minor.value) THEN stop("return", FALSE)
        ELSE IF myDependencies.thrown THEN stop("throw", TRUE)
        ELSE IF Len(checkedAfter) = Len(local) THEN go("return")
        ELSE go("recurse")

CompileBody(libs, dirs, uberName, checked, dependencies) ==
    CompileDecide(getUbernameForMinorVersion(libs, uberName),
                  getDependencies(libs, dirs, uberName, "all"),
                  checked, dependencies)

\* compileTotalDependencyList(uberName, checked, dependencies): what it returns
\* (value), and the arrays it was given as it leaves them (checked, pushed).
RECURSIVE CompileFrom(_, _, _, _, _)
CompileFrom(libs, dirs, uberName, checked, dependencies) ==
    LET b == CompileBody(libs, dirs, uberName, checked, dependencies)
    IN  IF b.kind = "throw"
        THEN [thrown |-> TRUE, value |-> <<>>, checked |-> b.checked, pushed |-> b.pushed]
        ELSE IF b.kind = "return"
        THEN [thrown |-> FALSE, value |-> b.local, checked |-> b.checked, pushed |-> b.pushed]
        ELSE LET r == CompileFrom(libs, dirs, b.next, b.checked, b.local)
             IN  IF r.thrown
                 THEN [thrown |-> TRUE, value |-> <<>>, checked |-> r.checked,
                       pushed |-> b.pushed]
                 ELSE [thrown |-> FALSE, value |-> Unique(r.pushed \o r.value),
                       checked |-> r.checked, pushed |-> b.pushed]

compileTotalDependencyList(libs, dirs, uberName) ==
    LET r == CompileFrom(libs, dirs, uberName, <<>>, <<>>)
    IN  IF r.thrown THEN Thrown ELSE Returned(r.value)

----------------------------------------------------------------------------
(* commands/check-cmd.js (src/unnamed/part_004) *)

\* checkDependencies: the uber name it derives from a library folder name.
UberNameOfFolder(folder) ==
    LET d == decomposeLibraryFileName(folder)
    IN  d.machineName \o <<" ">> \o d.majorVersion \o <<".">> \o d.minorVersion

NotInstalled(libs, dependencies) ==
    SelectSeq(dependencies, LAMBDA dependency :
        ~IsDefined(getLibraryJson(libs, dependency, TRUE)))

MissingMessages(uberName, missing, level, kind) ==
    [i \in 1..Len(missing) |->
        [uberName |-> uberName, level |-> level, kind |-> kind,
         dependency |-> missing[i]]]

MissingOf(libs, uberName, dependencyList, level, kind) ==
    IF dependencyList.thrown THEN Thrown
    ELSE Returned(MissingMessages(uberName, NotInstalled(libs, dependencyList.value),
                                  level, kind))

ThenMessages(first, second) ==
    IF first.thrown \/ second.thrown THEN Thrown
    ELSE Returned(first.value \o second.value)

\* checkForMissingDependencies: one message for each dependency that
\* getLibraryJson(dependency, { exact: true }) does not find, the mandatory
\* ones as errors, then the optional ones as warnings.
checkForMissingDependencies(libs, dirs, uberName) ==
    ThenMessages(
        MissingOf(libs, uberName, getDependencies(libs, dirs, uberName, "mandatory"),
                  "error", "mandatory"),
        MissingOf(libs, uberName, getDependencies(libs, dirs, uberName, "optional"),
                  "warning", "optional"))

\* checkForOutdatedDependencyUse: usedVersion of a dependency.
UsedVersion(dependency) ==
    decomposeUberName(dependency).majorVersion \o <<".">>
        \o decomposeUberName(dependency).minorVersion

\* latestVersion.split('.').slice(0, 2).join('.').
FirstTwo(parts) ==
    SubSeq(parts, 1, IF Len(parts) < 2 THEN Len(parts) ELSE 2)

LatestMinorVersion(latestVersion) ==
    Join(FirstTwo(Split(latestVersion, ".")), ".")

\* checkForOutdatedDependencyUse: whether the forEach pushes a message for
\* a dependency.
IsOlderThan(dependency, latestVersion) ==
    /\ IsDefined(latestVersion)
    /\ compareVersions(UsedVersion(dependency),
                       LatestMinorVersion(The(latestVersion))) = -1

IsOutdatedUse(libs, dependency) ==
    IsOlderThan(dependency, getLatestVersion(libs, dependency))

OutdatedMessages(libs, uberName, dependencyList) ==
    LET outdated == SelectSeq(dependencyList, LAMBDA dependency :
                        IsOutdatedUse(libs, dependency))
    IN  [i \in 1..Len(outdated) |->
            [uberName |-> uberName, level |-> "warning", kind |-> "outdated",
             dependency |-> outdated[i]]]

OutdatedOf(libs, uberName, dependencyList) ==
    IF dependencyList.thrown THEN Thrown
    ELSE Returned(OutdatedMessages(libs, uberName, dependencyList.value))

\* checkForOutdatedDependencyUse: one warning for each dependency of
\* getDependencies(uberName) whose version is below that of getLatestVersion.
checkForOutdatedDependencyUse(libs, dirs, uberName) ==
    OutdatedOf(libs, uberName, getDependencies(libs, dirs, uberName, "all"))

\* The { machineName, version } entry of a dependency.
MachineNameEntry(dependency) ==
    LET d == decomposeUberName(dependency)
    IN  [machineName |-> d.machineName,
         version |-> d.majorVersion \o <<".">> \o d.minorVersion]

\* ConflictMessages asking for more than two entries of a machine name.
ConflictMessagesAboveTwo(uberName, dependencyList) ==
    LET machineNameList ==
            [i \in 1..Len(dependencyList) |->
                LET d == decomposeUberName(dependencyList[i])
                IN  [machineName |-> d.machineName,
                     version |-> d.majorVersion \o <<".">> \o d.minorVersion]]
        machineNameCount(machineName) ==
            Cardinality({i \in 1..Len(machineNameList) :
                            machineNameList[i].machineName = machineName})
        duplicates ==
            SelectSeq(machineNameList, LAMBDA entry : machineNameCount(entry.machineName) > 2)
        keys == Unique([i \in 1..Len(duplicates) |-> duplicates[i].machineName])
        versionsOf(machineName) ==
            LET mine == SelectSeq(duplicates, LAMBDA entry : entry.machineName = machineName)
            IN  [i \in 1..Len(mine) |-> mine[i].version]
    IN  [i \in 1..Len(keys) |->
            [uberName |-> uberName, level |-> "warning",
             machineName |-> keys[i], versions |-> versionsOf(keys[i])]]

\* The messages checkForConflictingDependencies builds from the dependency
\* list: the entries whose machine name occurs more than once, grouped by
\* machine name in the order of first occurrence.
ConflictMessages(uberName, dependencyList) ==
    LET machineNameList ==
            [i \in 1..Len(dependencyList) |-> MachineNameEntry(dependencyList[i])]
        machineNameCount(machineName) ==
            Cardinality({i \in 1..Len(machineNameList) :
                            machineNameList[i].machineName = machineName})
        duplicates ==
            SelectSeq(machineNameList, LAMBDA entry : machineNameCount(entry.machineName) > 1)
        keys == Unique([i \in 1..Len(duplicates) |-> duplicates[i].machineName])
        versionsOf(machineName) ==
            LET mine == SelectSeq(duplicates, LAMBDA entry : entry.machineName = machineName)
            IN  [i \in 1..Len(mine) |-> mine[i].version]
    IN  [i \in 1..Len(keys) |->
            [uberName |-> uberName, level |-> "warning",
             machineName |-> keys[i], versions |-> versionsOf(keys[i])]]

checkForConflictingDependencies(libs, dirs, uberName) ==
    LET dependencyList == compileTotalDependencyList(libs, dirs, uberName)
    IN  IF dependencyList.thrown THEN Thrown
        ELSE Returned(ConflictMessages(uberName, dependencyList.value))

----------------------------------------------------------------------------
(* Paths.  A path is a string whose "/" is one token. *)

\* The normalisation of path.resolve over the segments of a path: "" and "."
\* are dropped, ".." drops the segment before it (at the root, nothing).
RECURSIVE Normalize(_, _)
Normalize(segments, resolved) ==
    IF segments = <<>> THEN resolved
    ELSE Normalize(
             Tail(segments),
             IF segments[1] = <<>> \/ segments[1] = <<".">> THEN resolved
             ELSE IF segments[1] = <<".", ".">>
             THEN (IF resolved = <<>> THEN resolved
                   ELSE SubSeq(resolved, 1, Len(resolved) - 1))
             ELSE Append(resolved, segments[1]))

PathOf(segments) == <<"/">> \o Join(segments, "/")

IsAbsolute(p) == p # <<>> /\ p[1] = "/"

\* path.resolve(base, p) for an absolute base.
resolve(base, p) ==
    PathOf(Normalize(
        (IF IsAbsolute(p) THEN <<>> ELSE Split(base, "/")) \o Split(p, "/"), <<>>))

\* path.join(base, name) for a normalised base and a plain name.
join(base, name) == base \o <<"/">> \o name

\* The path of a file below a directory, relative to the directory.
RelativeTo(base, p) == SubSeq(p, Len(base) + 2, Len(p))

\* this.tempPath and this.librariesPath of the Importer.
TempPath == <<"/", "assets", "/", "temp">>
LibrariesPath == <<"/", "assets", "/", "libraries">>

----------------------------------------------------------------------------
(* models/importer.js *)

\* A file: of a library.json the parsed manifest is kept, of a
\* semantics.json the parsed document, of any other file nothing.
File(path, kind, libraryJson, semantics) ==
    [path |-> path, kind |-> kind, libraryJson |-> libraryJson, semantics |-> semantics]

LibraryJsonName == <<"library.json">>
SemanticsJsonName == <<"semantics.json">>

\* The files of a library directory, with paths that start at its folder.
FilesOf(dir) ==
    {File(join(dir.folderName, LibraryJsonName), "file", Some(dir.libraryJson), Undefined)}
        \cup (IF IsDefined(dir.semantics)
              THEN {File(join(dir.folderName, SemanticsJsonName), "file",
                         Undefined, dir.semantics)}
              ELSE {})

\* readdirSync(basepath) filtered as getLibraryFolderNames does, for a
\* directory given by its files: the top-level folders with a library.json.
LibraryFoldersIn(files) ==
    {Split(f.path, "/")[1] :
        f \in {g \in files : /\ Len(Split(g.path, "/")) = 2
                             /\ Split(g.path, "/")[2] = LibraryJsonName}}

\* A top-level folder of a directory as a library directory.
FolderIn(files, folder) ==
    [folderName |-> folder,
     libraryJson |->
         The((CHOOSE f \in files : f.path = join(folder, LibraryJsonName)).libraryJson),
     semantics |->
         IF \E f \in files : f.path = join(folder, SemanticsJsonName)
         THEN (CHOOSE f \in files : f.path = join(folder, SemanticsJsonName)).semantics
         ELSE Undefined]

LibraryDirectoriesIn(files) == {FolderIn(files, folder) : folder \in LibraryFoldersIn(files)}

\* readLibraryJson throws when a library.json cannot be parsed.
Unreadable(files) ==
    \E f \in files : /\ Len(Split(f.path, "/")) = 2
                     /\ Split(f.path, "/")[2] = LibraryJsonName
                     /\ ~IsDefined(f.libraryJson)

getIdentityMapping(listing) ==
    [i \in 1..Len(listing) |->
        [machineName |-> listing[i].libraryJson.machineName,
         folderName |-> listing[i].folderName,
         version |-> VersionString(listing[i].libraryJson)]]

\* validateZipEntries comparing the joined path, which is not resolved.
validateZipEntriesUnresolved(entries, extractTo) ==
    \E entry \in entries :
        /\ ~StartsWith(join(extractTo, entry.path), extractTo \o <<"/">>)
        /\ join(extractTo, entry.path) # extractTo

\* validateZipEntries: TRUE when it throws.
validateZipEntries(entries, extractTo) ==
    \E entry \in entries :
        /\ ~StartsWith(resolve(extractTo, entry.path), resolve(extractTo, <<>>) \o <<"/">>)
        /\ resolve(extractTo, entry.path) # resolve(extractTo, <<>>)

\* zip.extractAllTo(extractTo, true): each entry is written where its name
\* resolves to; the result is given relative to extractTo.
extractAllTo(entries, extractTo) ==
    {File(RelativeTo(resolve(extractTo, <<>>), resolve(extractTo, entry.path)),
          entry.kind, entry.libraryJson, entry.semantics) : entry \in entries}

\* setPermissions that does not descend into directories.
setPermissionsTopLevel(files) ==
    \E f \in files : f.kind = "symlink" /\ Len(Split(f.path, "/")) = 1

\* setPermissions: TRUE when it throws, which it does on a symbolic link.
setPermissions(files) == \E f \in files : f.kind = "symlink"

\* validateFilePath without the checks on what lstatSync returns.
validateFilePathUnchecked(uploads, filePath, allowedDirectory) ==
    ~StartsWith(resolve(<<"/">>, filePath), resolve(<<"/">>, allowedDirectory) \o <<"/">>)

\* validateFilePath: TRUE when it throws.  `uploads` are the files of the
\* file system by absolute path.
validateFilePath(uploads, filePath, allowedDirectory) ==
    \/ ~StartsWith(resolve(<<"/">>, filePath), resolve(<<"/">>, allowedDirectory) \o <<"/">>)
    \/ ~\E u \in uploads : u.path = resolve(<<"/">>, filePath)
    \/ \E u \in uploads : u.path = resolve(<<"/">>, filePath) /\ u.kind # "file"

\* updateLibraries: newVersionMinor.
VersionMinor(version) ==
    Split(version, ".")[1] \o <<".">>
        \o (IF Len(Split(version, ".")) >= 2 THEN Split(version, ".")[2] ELSE <<"undefined">>)

\* updateLibraries: localIdentityMapping.find(...).
FindLocalIdentity(localIdentityMapping, newIdentity) ==
    LET matching ==
            SelectSeq(localIdentityMapping, LAMBDA item :
                /\ item.machineName = newIdentity.machineName
                /\ StartsWith(item.version, VersionMinor(newIdentity.version)))
    IN  IF matching = <<>> THEN Undefined ELSE Some(matching[1])

WithoutFolder(dirs, folderName) == {d \in dirs : d.folderName # folderName}

\* updateLibraries for one new identity whose local identity was looked up:
\* the installed directories afterwards, and whether the folder was moved.
UpdateWith(dirs, tempDir, newIdentity, localIdentity) ==
    IF IsDefined(localIdentity)
       /\ compareVersions(newIdentity.version, The(localIdentity).version) = 0
    THEN [dirs |-> dirs, moved |-> FALSE]
    ELSE [dirs |->
              WithoutFolder(
                  IF IsDefined(localIdentity)
                     /\ isNewerPatchVersion(The(localIdentity).version, newIdentity.version)
                  THEN WithoutFolder(dirs, The(localIdentity).folderName)
                  ELSE dirs,
                  newIdentity.folderName)
                  \cup {tempDir},
          moved |-> TRUE]

UpdateOne(dirs, tempDir, newIdentity, localIdentityMapping) ==
    UpdateWith(dirs, tempDir, newIdentity,
               FindLocalIdentity(localIdentityMapping, newIdentity))

----------------------------------------------------------------------------
(* The library stores the dependency queries are checked on *)

\* The most dependencies one library of a store declares.
MaxDeps == 2

Dependency(name, major, minor) ==
    [machineName |-> <<name>>, majorVersion |-> major, minorVersion |-> minor]

\* The dependencies of one kind among the chosen candidates, in order.
RECURSIVE ChosenOfKind(_, _, _, _)
ChosenOfKind(candidates, chosen, kind, i) ==
    IF i > Len(candidates) THEN <<>>
    ELSE (IF i \in chosen /\ candidates[i].kind = kind
          THEN <<candidates[i].dependency>> ELSE <<>>)
             \o ChosenOfKind(candidates, chosen, kind, i + 1)

\* A semantics.json whose library options sit in a field nested in a group.
SemanticsWith(dependencies) ==
    <<[options |-> Undefined,
       fields |-> <<[options |-> Some(<<<<"none">>>> \o DependencyUberNames(dependencies)),
                     fields |-> <<>>]>>]>>

\* A library directory: its folder name (with the patch version or without),
\* its library.json and its semantics.json (if it has one).
LibraryDirectory(name, major, minor, patch, withPatch, candidates, chosen) ==
    LET libraryJson ==
            [machineName |-> <<name>>,
             majorVersion |-> major, minorVersion |-> minor, patchVersion |-> patch,
             preloadedDependencies |-> ChosenOfKind(candidates, chosen, "preloaded", 1),
             editorDependencies |-> ChosenOfKind(candidates, chosen, "editor", 1)]
        inSemantics == ChosenOfKind(candidates, chosen, "semantics", 1)
    IN  [folderName |->
             <<name, "-">> \o (IF withPatch THEN VersionString(libraryJson)
                               ELSE MinorVersionString(major, minor)),
         libraryJson |-> libraryJson,
         semantics |-> IF inSemantics = <<>> THEN Undefined
                       ELSE Some(SemanticsWith(inSemantics))]

Variants(name, major, minor, patch, forms, candidates) ==
    {LibraryDirectory(name, major, minor, patch, withPatch, candidates, chosen) :
        withPatch \in forms,
        chosen \in {S \in SUBSET (1..Len(candidates)) : Cardinality(S) <= MaxDeps}}

Candidate(kind, name, major, minor) ==
    [kind |-> kind, dependency |-> Dependency(name, major, minor)]

\* H5P.R 1.0 is the spec's root; H5P.A and H5P.B may depend on each other and
\* on the two minor lines of H5P.C; H5P.X 9.9 is never installed.
VariantsR ==
    Variants("H5P.R", 1, 0, 0, {FALSE},
             <<Candidate("preloaded", "H5P.A", 1, 0),
               Candidate("preloaded", "H5P.B", 2, 0),
               Candidate("editor", "H5P.X", 9, 9)>>)

VariantsA ==
    Variants("H5P.A", 1, 0, 0, {FALSE},
             <<Candidate("preloaded", "H5P.C", 1, 0),
               Candidate("editor", "H5P.B", 2, 0)>>)

VariantsB ==
    {b \in Variants("H5P.B", 2, 0, 0, {FALSE},
                    <<Candidate("preloaded", "H5P.C", 2, 0),
                      Candidate("preloaded", "H5P.A", 1, 0)>>) :
        b.libraryJson.preloadedDependencies # <<>>}

VariantsC1 ==
    Variants("H5P.C", 1, 0, 1, {FALSE, TRUE},
             <<Candidate("semantics", "H5P.X", 9, 9)>>)

VariantsC2 ==
    Variants("H5P.C", 2, 0, 0, {FALSE},
             <<Candidate("semantics", "H5P.A", 1, 0)>>)

Optional(S) == {{}} \cup {{x} : x \in S}

DependencyStores ==
    {{r, a, b} \cup c1 \cup c2 :
        r \in VariantsR, a \in VariantsA, b \in VariantsB,
        c1 \in Optional(VariantsC1), c2 \in Optional(VariantsC2)}

\* readdirSync lists a directory in an order Node does not specify.  No
\* function of the program depends on the order between directories of
\* different machine names, so the model fixes that order and leaves the
\* order among the directories of one machine name free.
NameOrder == <<"H5P.R", "H5P.A", "H5P.B", "H5P.C", "H5P.X">>

NameIndex(dir) ==
    CHOOSE i \in 1..Len(NameOrder) : <<NameOrder[i]>> = dir.libraryJson.machineName

ScanOrders(dirs) ==
    {l \in Listings(dirs) :
        \A i, j \in 1..Len(l) : i < j => NameIndex(l[i]) <= NameIndex(l[j])}

----------------------------------------------------------------------------
(* The state machine *)

NoCall ==
    [pc |-> "idle", root |-> Null, uberName |-> Null, stack |-> <<>>,
     checked |-> <<>>, expanded |-> <<>>, result |-> <<>>]

\* The calls of updateServedData: from the callbacks of two cron mirrors of
\* the server process, and from the update command in a process of its own.
\* No manifest.json, which Manifest.read takes for one without content types.
NoManifest == [file |-> <<>>, data |-> <<>>]

UpdateTasks == {"cron1", "cron2", "update"}

\* No updateServedData call has run: no lock file, no hub registry written.

NoUpdate ==
    [lock |-> FALSE, registry |-> <<>>, writes |-> 0, loop |-> "none",
     pc |-> [t \in UpdateTasks |-> "idle"],
     names |-> [t \in UpdateTasks |-> <<>>],
     runs |-> [t \in UpdateTasks |-> 0]]

NoOutput == [op |-> "none", arg |-> Null, thrown |-> FALSE, value |-> <<>>]

NoInput == [kind |-> "none", path |-> <<>>, entries |-> {}]

\* No import() is running.  Of a call the record holds the input, the name
\* of its scratch directory, the two identity mappings and the position in
\* the new one, the steps it has completed, what threw if something did,
\* what it returned, the installed directories when it was entered, and,
\* when it repeats the call before it, those that call left.
NoImport ==
    [pc |-> "idle", input |-> NoInput, temp |-> Null,
     newMapping |-> <<>>, localMapping |-> <<>>, k |-> 0,
     steps |-> <<>>, caught |-> "none",
     ret |-> Undefined, before |-> {}, again |-> FALSE, first |-> {}]

InitDeps ==
    /\ disk \in DependencyStores
    /\ data \in {read(listing) : listing \in ScanOrders(disk)}
    /\ cl = NoCall
    /\ out = NoOutput
    /\ scratch = {}
    /\ imp = NoImport
    /\ exports = {}
    /\ upd = NoUpdate
    /\ manifest = NoManifest

FolderNames(dirs) == {d.folderName : d \in dirs}

\* Each behaviour is one query on one store: a query starts only while
\* nothing has been returned yet.

\* checkDependencies calls compileTotalDependencyList for a library folder.
CompileStart(folder) ==
    /\ cl.pc = "idle"
    /\ out.op = "none"
    /\ cl' = [NoCall EXCEPT !.pc = "call",
                            !.root = UberNameOfFolder(folder),
                            !.uberName = UberNameOfFolder(folder),
                            !.stack = <<<<>>>>]
    /\ out' = NoOutput
    /\ UNCHANGED <<manifest, upd, exports, disk, data, scratch, imp>>

\* The call after an activation whose body came out as b: the top of the
\* stack is the array the activation was given as `dependencies`.
AfterActivation(call, b) ==
    LET top == Len(call.stack)
        record == [call EXCEPT
                      !.checked = b.checked,
                      !.expanded = IF b.expanded THEN Append(call.expanded, b.minor)
                                   ELSE call.expanded]
    IN  IF b.kind = "throw"
        THEN [record EXCEPT !.pc = "thrown"]
        ELSE IF b.kind = "return"
        THEN [record EXCEPT !.pc = "return", !.stack[top] = b.pushed, !.result = b.local]
        ELSE [record EXCEPT !.pc = "call",
                            !.stack = Append([call.stack EXCEPT ![top] = b.pushed], b.local),
                            !.uberName = b.next]

\* One activation runs to its return, its throw or its recursive call.
CompileCall ==
    /\ cl.pc = "call"
    /\ cl' = AfterActivation(
                 cl, CompileBody(data, disk, cl.uberName, cl.checked, cl.stack[Len(cl.stack)]))
    /\ UNCHANGED <<manifest, upd, exports, disk, data, out, scratch, imp>>

\* An activation returns to the one that called it, which merges the result
\* into its own array; the first activation returns to checkDependencies.
CompileReturn ==
    /\ cl.pc = "return"
    /\ LET top == Len(cl.stack)
       IN  cl' =
             IF top = 1
             THEN [cl EXCEPT !.pc = "done", !.stack = <<>>]
             ELSE [cl EXCEPT !.stack = SubSeq(cl.stack, 1, top - 1),
                             !.result = Unique(cl.stack[top] \o cl.result)]
    /\ UNCHANGED <<manifest, upd, exports, disk, data, out, scratch, imp>>

\* checkForConflictingDependencies goes on with the list it got.
ReportConflicts ==
    /\ cl.pc \in {"done", "thrown"}
    /\ out' = [op |-> "conflicts", arg |-> cl.root, thrown |-> cl.pc = "thrown",
               value |-> IF cl.pc = "thrown" THEN <<>>
                         ELSE ConflictMessages(cl.root, cl.result)]
    /\ cl' = [cl EXCEPT !.pc = "idle"]
    /\ UNCHANGED <<manifest, upd, exports, disk, data, scratch, imp>>

ReportMissing(folder) ==
    /\ cl.pc = "idle"
    /\ out.op = "none"
    /\ LET r == checkForMissingDependencies(data, disk, UberNameOfFolder(folder))
       IN  out' = [op |-> "missing", arg |-> UberNameOfFolder(folder),
                   thrown |-> r.thrown, value |-> r.value]
    /\ cl' = NoCall
    /\ UNCHANGED <<manifest, upd, exports, disk, data, scratch, imp>>

\* What a call of checkForOutdatedDependencyUse(uberName) gave.
OutdatedReported(uberName, messages) ==
    out' = [op |-> "outdated", arg |-> uberName,
            thrown |-> messages.thrown, value |-> messages.value]

\* checkDependencies calls checkForOutdatedDependencyUse for a library folder.
ReportOutdated(folder) ==
    /\ cl.pc = "idle"
    /\ out.op = "none"
    /\ OutdatedReported(UberNameOfFolder(folder),
                        checkForOutdatedDependencyUse(data, disk,
                                                      UberNameOfFolder(folder)))
    /\ cl' = NoCall
    /\ UNCHANGED <<manifest, upd, exports, disk, data, scratch, imp>>

\* The identities getDependencies is asked for: a machine name alone or with
\* a major.minor that no library of the stores has.
QueriedIdentities ==
    {<<name>> : name \in {"H5P.C", "H5P.X"}}
        \cup {UberNameOf(Dependency(name, 9, 9)) : name \in {"H5P.C", "H5P.X"}}

\* What a call of getDependencies(uberName, { type }) gave.
DependenciesReported(uberName, type, dependencies) ==
    out' = [op |-> "dependencies", arg |-> [uberName |-> uberName, type |-> type],
            thrown |-> dependencies.thrown, value |-> dependencies.value]

\* getDependencies(uberName, { type }).
QueryDependencies(uberName, type) ==
    /\ cl.pc = "idle"
    /\ out.op = "none"
    /\ DependenciesReported(uberName, type,
                            getDependencies(data, disk, uberName, type))
    /\ cl' = NoCall
    /\ UNCHANGED <<manifest, upd, exports, disk, data, scratch, imp>>

\* getLibraryJson(machineName): the latest library of a machine name.
FindLatest(name) ==
    /\ cl.pc = "idle"
    /\ out.op = "none"
    /\ out' = [op |-> "latest", arg |-> <<name>>, thrown |-> FALSE,
               value |-> getLibraryJson(data, <<name>>, FALSE)]
    /\ cl' = NoCall
    /\ UNCHANGED <<manifest, upd, exports, disk, data, scratch, imp>>

NextDeps ==
    \/ \E folder \in FolderNames(disk) : CompileStart(folder)
    \/ CompileCall
    \/ CompileReturn
    \/ ReportConflicts
    \/ \E folder \in FolderNames(disk) : ReportMissing(folder)
    \/ \E folder \in FolderNames(disk) : ReportOutdated(folder)
    \/ \E uberName \in QueriedIdentities, type \in {"all", "mandatory", "optional"} :
           QueryDependencies(uberName, type)
    \/ \E i \in 1..Len(NameOrder) : FindLatest(NameOrder[i])

SpecDeps == InitDeps /\ [][NextDeps]_vars

----------------------------------------------------------------------------
(* models/hub-registry.js: Exporter *)

\* The files of package folders as the entries of an archive: zipFolder adds
\* every file under its path relative to the folder that is zipped.
Zipped(packages) == UNION {FilesOf(dir) : dir \in packages}

\* getBaseDependencies: the one uber name it returns, or a TypeError when
\* the version is missing and no library of the machine name is installed.
getBaseDependencies(libs, uberName) ==
    LET d == decomposeUberName(uberName)
    IN  IF d.majorVersion = Null \/ d.minorVersion = Null
             \/ d.majorVersion = <<>> \/ d.minorVersion = <<>>
        THEN (IF IsDefined(getLibraryJson(libs, d.machineName, FALSE))
              THEN Returned(UberNameOf(The(getLibraryJson(libs, d.machineName, FALSE))))
              ELSE Thrown)
        ELSE Returned(d.machineName \o <<" ">> \o d.majorVersion \o <<".">> \o d.minorVersion)

\* compileDependencies: allDependencies, from the latest library of the
\* machine name and its semantics.
AllDependencies(base, library, semantics) ==
    <<base>>
        \o (IF IsDefined(library)
            THEN DependencyUberNames(The(library).preloadedDependencies)
                     \o DependencyUberNames(The(library).editorDependencies)
            ELSE <<>>)
        \o OptionalOf(semantics)

AllDependenciesFor(libs, dirs, uberName, base) ==
    AllDependencies(base,
                    getLibraryJson(libs, decomposeUberName(uberName).machineName, FALSE),
                    getSemanticsJson(libs, dirs, decomposeUberName(uberName).machineName))

\* compileDependencies: what it returns from allDependencies and children.
Compiled(allDependencies, children) ==
    [thrown |-> children.thrown,
     value |-> IF children.thrown THEN <<>>
               ELSE Unique(allDependencies \o children.value),
     checked |-> children.checked]

RECURSIVE compileDependenciesFrom(_, _, _, _)
RECURSIVE getChildDependencies(_, _, _, _, _, _)
RECURSIVE AfterChild(_, _, _, _, _, _)

\* compileDependencies with checked.push(uberName) in place of
\* checked.push(dependencies[0]).
compileDependenciesFromPushingName(libs, dirs, uberName, checked) ==
    IF getBaseDependencies(libs, uberName).thrown
    THEN [thrown |-> TRUE, value |-> <<>>, checked |-> checked]
    ELSE Compiled(
             AllDependenciesFor(libs, dirs, uberName,
                                getBaseDependencies(libs, uberName).value),
             getChildDependencies(
                 libs, dirs,
                 AllDependenciesFor(libs, dirs, uberName,
                                    getBaseDependencies(libs, uberName).value),
                 1,
                 Append(checked, uberName),
                 <<>>))

\* compileDependencies(uberName, libraries, checked); `checked` is one array
\* shared by all activations, so it is returned with the result.
compileDependenciesFrom(libs, dirs, uberName, checked) ==
    IF getBaseDependencies(libs, uberName).thrown
    THEN [thrown |-> TRUE, value |-> <<>>, checked |-> checked]
    ELSE Compiled(
             AllDependenciesFor(libs, dirs, uberName,
                                getBaseDependencies(libs, uberName).value),
             getChildDependencies(
                 libs, dirs,
                 AllDependenciesFor(libs, dirs, uberName,
                                    getBaseDependencies(libs, uberName).value),
                 1,
                 Append(checked, getBaseDependencies(libs, uberName).value),
                 <<>>))

\* getChildDependencies: its forEach from the i-th dependency on.
getChildDependencies(libs, dirs, dependencies, i, checked, children) ==
    IF i > Len(dependencies)
    THEN [thrown |-> FALSE, value |-> children, checked |-> checked]
    ELSE IF Includes(checked, dependencies[i])
    THEN getChildDependencies(libs, dirs, dependencies, i + 1, checked, children)
    ELSE AfterChild(libs, dirs, dependencies, i, children,
                    compileDependenciesFrom(libs, dirs, dependencies[i], checked))

AfterChild(libs, dirs, dependencies, i, children, compiled) ==
    IF compiled.thrown THEN compiled
    ELSE getChildDependencies(libs, dirs, dependencies, i + 1, compiled.checked,
                              children \o compiled.value)

compileDependencies(libs, dirs, uberName) ==
    compileDependenciesFrom(libs, dirs, uberName, <<>>)

\* createExport: the dependencies of which some version is installed.
InstalledInSomeVersion(libs, dependencyUberNames) ==
    SelectSeq(dependencyUberNames, LAMBDA dependencyUberName :
        IsDefined(getLibraryJson(libs, decomposeUberName(dependencyUberName).machineName,
                                 FALSE)))

\* createExport: the source folders of the dependencies.
SourceFolders(libs, dirs, dependencyUberNames) ==
    [i \in 1..Len(dependencyUberNames) |-> getFolderPath(libs, dirs, dependencyUberNames[i])]

\* `${machineName}-${majorVersion}.${minorVersion}.${patchVersion}.h5p`.
ExportFileName(machineName, library) ==
    machineName \o <<"-">> \o VersionString(library) \o <<".h5p">>

\* createExport from its dependencies on: path.basename(undefined) throws
\* a TypeError for a dependency without source folder; otherwise the folders
\* are copied and zipped.
Exported(libs, dirs, machineName, compiled, sourceFolders) ==
    IF compiled.thrown \/ \E i \in 1..Len(sourceFolders) : ~IsDefined(sourceFolders[i])
    THEN [thrown |-> TRUE, entries |-> {}, fileName |-> <<>>, library |-> Undefined,
          copied |-> {dir \in dirs :
                         \E i \in 1..Len(sourceFolders) :
                             /\ sourceFolders[i] = Some(dir.folderName)
                             /\ \A j \in 1..i : IsDefined(sourceFolders[j])}]
    ELSE [thrown |-> FALSE,
          entries |-> Zipped({dir \in dirs :
                                 \E i \in 1..Len(sourceFolders) :
                                     sourceFolders[i] = Some(dir.folderName)}),
          fileName |-> ExportFileName(machineName,
                                      The(getLibraryJson(libs, machineName, FALSE))),
          library |-> getLibraryJson(libs, machineName, FALSE),
          copied |-> {}]

createExport(libs, dirs, machineName) ==
    Exported(libs, dirs, machineName,
             compileDependencies(libs, dirs, machineName),
             SourceFolders(libs, dirs,
                           InstalledInSomeVersion(
                               libs, compileDependencies(libs, dirs, machineName).value)))

\* Exporter.remove(uberName): the files of the exports directory left.
RemoveExport(files, uberName) ==
    {f \in files :
        ~StartsWith(f.name, decomposeUberName(uberName).machineName \o <<"-">>
                                \o decomposeUberName(uberName).majorVersion \o <<".">>
                                \o decomposeUberName(uberName).minorVersion)}

\* createExport: the exports directory after this.remove and zipFolder.
ExportsAfter(files, exported) ==
    IF exported.thrown THEN files
    ELSE RemoveExport(files, UberNameOf(The(exported.library)))
             \cup {[name |-> exported.fileName, entries |-> exported.entries]}

\* createExport: its folder under assets/temp, which is created by the
\* first cpSync and, when the export gets to its end, is left empty by
\* clearDirectorySync.
TempExportAfter(dirs, name, exported) ==
    IF exported.thrown /\ exported.copied = {} THEN dirs
    ELSE {d \in dirs : d.name # name}
             \cup {[name |-> name, files |-> Zipped(exported.copied)]}

\* createUUID(), the name of the folder of an export under assets/temp.
TempExportName(uuid) == <<"export-uuid-">> \o NumToStr(uuid)

----------------------------------------------------------------------------
(* The stores and archives imports are checked on *)

\* The highest patch version, the most packages of an archive and the number
\* of names a scratch directory can get.
MaxPatch == 1
MaxArchive == 2
MaxScratch == 2

\* H5P.A 1.2.x in a folder named without the patch version, the highest
\* patch also in a folder named with it, and H5P.A 1.20.0.
Package(minor, patch, withPatch) ==
    LibraryDirectory("H5P.A", 1, minor, patch, withPatch, <<>>, {})

PackagesOfLine ==
    {Package(2, patch, FALSE) : patch \in 0..MaxPatch}
        \cup {Package(2, MaxPatch, TRUE)}

OtherLine == {Package(20, 0, FALSE)}

\* The stores an import starts from: at most one directory for a minor line.
ImportStores ==
    {a \cup b : a \in Optional(PackagesOfLine), b \in Optional(OtherLine)}

\* Archives of package folders with different names.
PackageSets ==
    {S \in SUBSET (PackagesOfLine \cup OtherLine) :
        /\ Cardinality(S) <= MaxArchive
        /\ \A x, y \in S : x.folderName = y.folderName => x = y}

\* Entries that do not belong to a package folder: two that resolve outside
\* of the directory they are extracted to, one with ".." that stays inside,
\* and a symbolic link.
EtcPasswd == <<"etc", "/", "passwd">>

OddEntries ==
    {File(<<".", ".", "/", ".", ".", "/">> \o EtcPasswd, "file", Undefined, Undefined),
     File(<<"/">> \o EtcPasswd, "file", Undefined, Undefined),
     File(<<"H5P.A", "-", "1", ".", "2", "/", ".", ".", "/", "notes">>,
          "file", Undefined, Undefined),
     File(<<"H5P.A", "-", "1", ".", "2", "/", "link">>, "symlink", Undefined, Undefined),
     File(<<"H5P.A", "-", "1", ".", "2", "/", "js", "/", "link">>,
          "symlink", Undefined, Undefined)}

Archives ==
    {Zipped(S) : S \in PackageSets}
        \cup {Zipped({Package(2, 0, FALSE)}) \cup {e} : e \in OddEntries}

\* The files below assets/temp and elsewhere that a path input can name.
UploadPath == join(TempPath, <<"upload.zip">>)

Uploads ==
    {[path |-> UploadPath, kind |-> "file"],
     [path |-> join(TempPath, <<"link.zip">>), kind |-> "symlink"],
     [path |-> join(TempPath, <<"folder">>), kind |-> "directory"],
     [path |-> join(LibrariesPath, <<"outside.zip">>), kind |-> "file"]}

Inputs ==
    {[kind |-> "blob", path |-> <<>>, entries |-> archive] : archive \in Archives}
        \cup {[kind |-> "path", path |-> u.path,
               entries |-> Zipped({Package(2, 1, FALSE)})] : u \in Uploads}
        \cup {[kind |-> "path", path |-> p, entries |-> Zipped({Package(2, 1, FALSE)})] :
                 p \in {TempPath \o <<"/", ".", ".", "/", "libraries", "/", "outside.zip">>,
                        TempPath,
                        join(TempPath, <<"missing.zip">>)}}
        \cup {[kind |-> "other", path |-> <<>>, entries |-> {}]}

----------------------------------------------------------------------------
(* Importer.import, step by step *)

InitImport ==
    /\ disk \in ImportStores
    /\ data \in {read(l) : l \in ScanOrders(disk)}
    /\ cl = NoCall
    /\ out = NoOutput
    /\ scratch = {}
    /\ imp = NoImport
    /\ exports = {}
    /\ upd = NoUpdate
    /\ manifest = NoManifest

\* `temp-${crypto.randomUUID()}`.
TempFolderName(uuid) == <<"temp-">> \o NumToStr(uuid)

ZipFileName(input) ==
    IF input.kind = "path" THEN <<"uploaded.zip">> ELSE <<"temp.zip">>

\* The files of a scratch directory by its name.
ScratchFiles(dirs, name) ==
    IF \E d \in dirs : d.name = name
    THEN (CHOOSE d \in dirs : d.name = name).files
    ELSE {}

WithScratchFiles(dirs, name, files) ==
    {d \in dirs : d.name # name} \cup {[name |-> name, files |-> files]}

\* removeDirectorySync(tempFolderPath) that removes nothing.
ScratchKept(dirs, name) == dirs

\* removeDirectorySync(tempFolderPath).
WithoutScratch(dirs, name) == {d \in dirs : d.name # name}

\* The call has returned `value`.
ReturnOf(call, value) ==
    [call EXCEPT !.pc = "returned", !.ret = Some(value),
                 !.newMapping = <<>>, !.localMapping = <<>>, !.k = 0]

\* The call as it is entered with an input.
Entered(input, dirs, again) ==
    [NoImport EXCEPT !.pc = "entered", !.input = input, !.before = dirs,
                     !.again = again, !.first = IF again THEN dirs ELSE {}]

\* Whether the snapshot is what a read of the libraries folder gives.
Fresh == data \in {read(l) : l \in ScanOrders(disk)}

\* import() is entered: the type check, after which nothing is created yet.
\* Its callers have read the libraries folder since the last change of it
\* (a command constructs its Libraries, the mirror calls update()).
ImportBegin(input) ==
    /\ imp.pc = "idle"
    /\ cl.pc = "idle"
    /\ Fresh
    /\ imp' = IF input.kind = "other"
              THEN ReturnOf(Entered(input, disk, FALSE), FALSE)
              ELSE Entered(input, disk, FALSE)
    /\ UNCHANGED <<manifest, upd, exports, disk, data, cl, out, scratch>>

\* import() is called once more with the input of the call that has just
\* returned true.
ImportAgain ==
    /\ imp.pc = "returned"
    /\ imp.ret = Some(TRUE)
    /\ ~imp.again
    /\ imp' = Entered(imp.input, disk, TRUE)
    /\ UNCHANGED <<manifest, upd, exports, disk, data, cl, out, scratch>>

\* The caller goes on after import() has returned.
ImportDone ==
    /\ imp.pc = "returned"
    /\ imp' = NoImport
    /\ UNCHANGED <<manifest, upd, exports, disk, data, cl, out, scratch>>

\* createTempFolder.
CreateTemp ==
    /\ imp.pc = "entered"
    /\ \E uuid \in 1..MaxScratch :
           /\ imp' = [imp EXCEPT !.pc = "created", !.temp = TempFolderName(uuid),
                              !.steps = Append(imp.steps, "createTempFolder")]
           /\ scratch' = WithScratchFiles(scratch, TempFolderName(uuid), {})
    /\ UNCHANGED <<manifest, upd, exports, disk, data, cl, out>>

\* The catch block: the scratch directory is removed if it exists, and
\* import() returns false.
Caught(thrownBy) ==
    /\ imp' = ReturnOf([imp EXCEPT !.caught = thrownBy], FALSE)
    /\ scratch' = WithoutScratch(scratch, imp.temp)
    /\ UNCHANGED <<manifest, upd, exports, disk, data, cl, out>>

\* validateFilePath and copyFileSync for a path, writeBlobToFile for a Blob.
Materialize ==
    /\ imp.pc = "created"
    /\ IF imp.input.kind = "path" /\ validateFilePath(Uploads, imp.input.path, TempPath)
       THEN Caught("validateFilePath")
       ELSE /\ imp' = [imp EXCEPT !.pc = "materialized",
                               !.steps = Append(imp.steps, "materialize")]
            /\ scratch' = WithScratchFiles(
                   scratch, imp.temp,
                   {File(ZipFileName(imp.input), "file", Undefined, Undefined)})
            /\ UNCHANGED <<manifest, upd, exports, disk, data, cl, out>>

\* extractZip: validateZipEntries.
Validate ==
    /\ imp.pc = "materialized"
    /\ IF validateZipEntries(imp.input.entries, join(TempPath, imp.temp))
       THEN Caught("validateZipEntries")
       ELSE /\ imp' = [imp EXCEPT !.pc = "validated",
                               !.steps = Append(imp.steps, "validateZipEntries")]
            /\ UNCHANGED <<manifest, upd, exports, disk, data, cl, out, scratch>>

\* extractZip: zip.extractAllTo.
Extract ==
    /\ imp.pc = "validated"
    /\ imp' = [imp EXCEPT !.pc = "extracted",
                       !.steps = Append(imp.steps, "extractAllTo")]
    /\ scratch' = WithScratchFiles(
           scratch, imp.temp,
           ScratchFiles(scratch, imp.temp)
               \cup extractAllTo(imp.input.entries, join(TempPath, imp.temp)))
    /\ UNCHANGED <<manifest, upd, exports, disk, data, cl, out>>

\* extractZip without setPermissions: the walk of the extracted tree is not
\* done before the identities are mapped.
PermitSkipped ==
    /\ imp.pc = "extracted"
    /\ imp' = [imp EXCEPT !.pc = "permitted"]
    /\ UNCHANGED <<manifest, upd, exports, disk, data, cl, out, scratch>>

\* extractZip: setPermissions.
Permit ==
    /\ imp.pc = "extracted"
    /\ IF setPermissions(ScratchFiles(scratch, imp.temp))
       THEN Caught("setPermissions")
       ELSE /\ imp' = [imp EXCEPT !.pc = "permitted",
                               !.steps = Append(imp.steps, "setPermissions")]
            /\ UNCHANGED <<manifest, upd, exports, disk, data, cl, out, scratch>>

\* The files of the scratch directory after unlinkSync(zipFilePath), which
\* is done for a Blob only.
Unlinked(files, input) ==
    IF input.kind = "path" THEN files
    ELSE {f \in files : f.path # ZipFileName(input)}

\* unlinkSync and the two calls of getIdentityMapping.
Map ==
    /\ imp.pc = "permitted"
    /\ IF Unreadable(ScratchFiles(scratch, imp.temp))
       THEN Caught("readLibraryJson")
       ELSE /\ \E newListing \in
                      ScanOrders(LibraryDirectoriesIn(ScratchFiles(scratch, imp.temp))),
                  localListing \in ScanOrders(disk) :
                    imp' = [imp EXCEPT !.pc = "mapped",
                                       !.newMapping = getIdentityMapping(newListing),
                                       !.localMapping = getIdentityMapping(localListing),
                                       !.k = 1,
                                       !.steps = Append(imp.steps, "getIdentityMapping")]
            /\ scratch' = WithScratchFiles(
                   scratch, imp.temp,
                   Unlinked(ScratchFiles(scratch, imp.temp), imp.input))
            /\ UNCHANGED <<manifest, upd, exports, disk, data, cl, out>>

\* The files of the scratch directory after a folder was moved out or not.
AfterMove(files, folderName, moved) ==
    IF moved
    THEN {f \in files : ~StartsWith(f.path, folderName \o <<"/">>)}
    ELSE files

\* updateLibraries: one turn of its forEach.
MergeNext ==
    /\ imp.pc = "mapped"
    /\ imp.k <= Len(imp.newMapping)
    /\ disk' = UpdateOne(disk,
                         FolderIn(ScratchFiles(scratch, imp.temp),
                                  imp.newMapping[imp.k].folderName),
                         imp.newMapping[imp.k], imp.localMapping).dirs
    /\ scratch' = WithScratchFiles(
           scratch, imp.temp,
           AfterMove(ScratchFiles(scratch, imp.temp),
                     imp.newMapping[imp.k].folderName,
                     UpdateOne(disk,
                               FolderIn(ScratchFiles(scratch, imp.temp),
                                        imp.newMapping[imp.k].folderName),
                               imp.newMapping[imp.k], imp.localMapping).moved))
    /\ imp' = [imp EXCEPT !.k = imp.k + 1,
                       !.steps = Append(imp.steps, "updateLibraries")]
    /\ UNCHANGED <<manifest, upd, exports, data, cl, out>>

\* removeDirectorySync(tempFolderPath) and return true.
Cleanup ==
    /\ imp.pc = "mapped"
    /\ imp.k > Len(imp.newMapping)
    /\ imp' = ReturnOf(imp, TRUE)
    /\ scratch' = WithoutScratch(scratch, imp.temp)
    /\ UNCHANGED <<manifest, upd, exports, disk, data, cl, out>>

\* The next step of the try block throws for a reason of its own (a full
\* disk, a file that cannot be read): the catch block runs.
ImportFail ==
    /\ imp.pc \in {"entered", "created", "materialized", "validated", "extracted",
                   "permitted", "mapped"}
    /\ Caught("io")

\* updateLibraries: what the libraries folder can be when a turn of the
\* forEach throws, at its first, second or third call of the file system.
\* A turn that finds the same version installed makes no such call.
MergeFailures(dirs, newIdentity, localIdentity) ==
    IF IsDefined(localIdentity)
       /\ compareVersions(newIdentity.version, The(localIdentity).version) = 0
    THEN {}
    ELSE {dirs,
          IF IsDefined(localIdentity)
             /\ isNewerPatchVersion(The(localIdentity).version, newIdentity.version)
          THEN WithoutFolder(dirs, The(localIdentity).folderName)
          ELSE dirs,
          WithoutFolder(
              IF IsDefined(localIdentity)
                 /\ isNewerPatchVersion(The(localIdentity).version, newIdentity.version)
              THEN WithoutFolder(dirs, The(localIdentity).folderName)
              ELSE dirs,
              newIdentity.folderName)}

\* updateLibraries throws in the turn of the k-th new identity, with a catch
\* block that leaves the scratch directory.
MergeFailKeepingScratch ==
    /\ imp.pc = "mapped"
    /\ imp.k <= Len(imp.newMapping)
    /\ disk' \in MergeFailures(disk, imp.newMapping[imp.k],
                                FindLocalIdentity(imp.localMapping, imp.newMapping[imp.k]))
    /\ imp' = [imp EXCEPT !.pc = "returned", !.ret = Some(FALSE),
                          !.caught = "updateLibraries"]
    /\ UNCHANGED <<manifest, upd, exports, data, cl, out, scratch>>

\* updateLibraries throws in the turn of the k-th new identity: the catch
\* block of import().
MergeFail ==
    /\ imp.pc = "mapped"
    /\ imp.k <= Len(imp.newMapping)
    /\ disk' \in MergeFailures(disk, imp.newMapping[imp.k],
                                FindLocalIdentity(imp.localMapping, imp.newMapping[imp.k]))
    /\ imp' = [imp EXCEPT !.pc = "returned", !.ret = Some(FALSE),
                          !.caught = "updateLibraries"]
    /\ scratch' = WithoutScratch(scratch, imp.temp)
    /\ UNCHANGED <<manifest, upd, exports, data, cl, out>>

\* Libraries.remove(libraryFileName), with the update() it ends with.
Remove(libraryFileName) ==
    /\ imp.pc = "idle"
    /\ cl.pc = "idle"
    /\ IsDefined(getFolderPath(data, disk, UberNameOfFolder(libraryFileName)))
    /\ disk' = WithoutFolder(
                   disk, The(getFolderPath(data, disk, UberNameOfFolder(libraryFileName))))
    /\ data' \in {read(l) : l \in ScanOrders(disk')}
    /\ UNCHANGED <<manifest, upd, exports, cl, out, scratch, imp>>

\* Libraries.update(): the snapshot is read again.
Reload ==
    /\ imp.pc = "idle"
    /\ cl.pc = "idle"
    /\ out.op = "none"
    /\ data' \in {read(l) : l \in ScanOrders(disk)}
    /\ data' # data
    /\ UNCHANGED <<manifest, upd, exports, disk, cl, out, scratch, imp>>

NextImport ==
    \/ \E input \in Inputs : ImportBegin(input)
    \/ ImportAgain
    \/ ImportDone
    \/ CreateTemp
    \/ Materialize
    \/ Validate
    \/ Extract
    \/ Permit
    \/ Map
    \/ MergeNext
    \/ Cleanup
    \/ ImportFail
    \/ \E d \in PackagesOfLine \cup OtherLine : Remove(d.folderName)
    \/ Reload

SpecImport == InitImport /\ [][NextImport]_vars

\* import() with a merge that can fail in any of its turns.
NextMerge ==
    \/ \E input \in Inputs : ImportBegin(input)
    \/ ImportDone
    \/ CreateTemp
    \/ Materialize
    \/ Validate
    \/ Extract
    \/ Permit
    \/ Map
    \/ MergeNext
    \/ MergeFail
    \/ Cleanup
    \/ ImportFail

SpecMerge == InitImport /\ [][NextMerge]_vars

----------------------------------------------------------------------------
(* Export of a library and import of the archive into an empty folder *)

\* createExport: what it leaves in the exports directory and under
\* assets/temp, and what it has zipped.
ExportedTo(machineName, uuid, exported) ==
    /\ out' = [op |-> "export",
               arg |-> [machineName |-> machineName, source |-> disk, snapshot |-> data,
                        before |-> exports],
               thrown |-> exported.thrown,
               value |-> exported.entries]
    /\ exports' = ExportsAfter(exports, exported)
    /\ scratch' = TempExportAfter(scratch, TempExportName(uuid), exported)

\* createExport(machineName, libraries) for the machine name of an
\* installed library.
Export(machineName) ==
    /\ imp.pc = "idle"
    /\ cl.pc = "idle"
    /\ out.op = "none"
    /\ IsDefined(getLibraryJson(data, machineName, FALSE))
    /\ \E uuid \in 1..MaxScratch :
           ExportedTo(machineName, uuid, createExport(data, disk, machineName))
    /\ UNCHANGED <<manifest, upd, disk, data, cl, imp>>

\* The exported archive is given, as a Blob, to the Importer of an
\* installation whose libraries folder is empty.
ImportExported ==
    /\ imp.pc = "idle"
    /\ out.op = "export"
    /\ ~out.thrown
    /\ disk' = {}
    /\ data' = <<>>
    /\ out' = [out EXCEPT !.op = "received"]
    /\ imp' = Entered([kind |-> "blob", path |-> <<>>, entries |-> out.value], {}, FALSE)
    /\ scratch' = {}
    /\ UNCHANGED <<manifest, upd, exports, cl>>

NextRoundTrip ==
    \/ \E i \in 1..Len(NameOrder) : Export(<<NameOrder[i]>>)
    \/ ImportExported
    \/ CreateTemp
    \/ Materialize
    \/ Validate
    \/ Extract
    \/ Permit
    \/ Map
    \/ MergeNext
    \/ Cleanup
    \/ ImportFail

SpecRoundTrip == InitDeps /\ [][NextRoundTrip]_vars

----------------------------------------------------------------------------
(* Exports into an exports directory that holds earlier exports *)

\* The export file createExport writes for a library directory.
ArtifactOf(dir) ==
    [name |-> ExportFileName(dir.libraryJson.machineName, dir.libraryJson),
     entries |-> Zipped({dir})]

\* The exports directories an export starts from: earlier exports of
\* H5P.A 1.2 (at most one, since an export removes the one before it), of
\* H5P.A 1.20 and of another machine name in version 1.2.
EarlierExports ==
    {a \cup b \cup c :
        a \in Optional({ArtifactOf(Package(2, patch, FALSE)) : patch \in 0..MaxPatch}),
        b \in Optional({ArtifactOf(Package(20, 0, FALSE))}),
        c \in Optional({ArtifactOf(LibraryDirectory("H5P.B", 1, 2, 0, FALSE, <<>>, {}))})}

InitExports ==
    /\ disk \in ImportStores
    /\ data \in {read(l) : l \in ScanOrders(disk)}
    /\ cl = NoCall
    /\ out = NoOutput
    /\ scratch = {}
    /\ imp = NoImport
    /\ exports \in EarlierExports
    /\ upd = NoUpdate
    /\ manifest = NoManifest

\* Exporter.clearExport().
ClearExport ==
    /\ out.op = "none"
    /\ exports # {}
    /\ exports' = {}
    /\ out' = [op |-> "clearExport", arg |-> Null, thrown |-> FALSE, value |-> <<>>]
    /\ UNCHANGED <<manifest, upd, disk, data, cl, scratch, imp>>

NextExports ==
    \/ Export(<<"H5P.A">>)
    \/ ClearExport

SpecExports == InitExports /\ [][NextExports]_vars

----------------------------------------------------------------------------
(* cleanUpTempFiles of another command while an import is in flight *)

\* cleanUpTempFiles(), as the update command, a mirror run and the stop of
\* the server end with: clearDirectorySync(assets/temp) removes every
\* directory under assets/temp.
CleanUpTempFiles ==
    /\ scratch # {}
    /\ scratch' = {}
    /\ UNCHANGED <<manifest, upd, exports, disk, data, cl, out, imp>>

\* Whether the scratch directory of the running import exists.
TempFolderExists == \E s \in scratch : s.name = imp.temp

\* import() in one process and the end of a command in another: a step of
\* import() that reads or writes its scratch directory throws once the
\* directory is gone.
NextCleanUp ==
    \/ \E input \in Inputs : ImportBegin(input)
    \/ ImportDone
    \/ CreateTemp
    \/ TempFolderExists /\ Materialize
    \/ TempFolderExists /\ Validate
    \/ TempFolderExists /\ Extract
    \/ TempFolderExists /\ Permit
    \/ TempFolderExists /\ Map
    \/ TempFolderExists /\ MergeNext
    \/ MergeFail
    \/ Cleanup
    \/ ImportFail
    \/ CleanUpTempFiles

SpecCleanUp == InitImport /\ [][NextCleanUp]_vars

----------------------------------------------------------------------------
(* Libraries.update on a folder with a library.json that cannot be parsed *)

\* A library folder whose library.json is not JSON.
Corrupted(dir) == [dir EXCEPT !.libraryJson = [corrupt |-> TRUE]]

\* readLibraryJson: whether JSON.parse throws for the library.json of a
\* folder.
ReadThrows(dir) == "corrupt" \in DOMAIN dir.libraryJson

\* Libraries.read: the map over the library folders throws at the first
\* library.json that cannot be parsed.
ReadAll(listing) ==
    IF \E i \in 1..Len(listing) : ReadThrows(listing[i])
    THEN Thrown
    ELSE Returned(read(listing))

\* The array that the map of Libraries.read has filled when it throws.
ReadSoFar(listing) ==
    read(SubSeq(listing, 1,
                (CHOOSE i \in 1..Len(listing) :
                     /\ ReadThrows(listing[i])
                     /\ \A j \in 1..(i - 1) : ~ReadThrows(listing[j])) - 1))

\* update() that assigns what read() had got to when it threw.
SnapshotAfterPartly(before, listing) ==
    IF ReadAll(listing).thrown THEN ReadSoFar(listing) ELSE ReadAll(listing).value

\* update(): this.data = this.read(), an assignment that is not made when
\* read() throws.
SnapshotAfter(before, listing) ==
    IF ReadAll(listing).thrown THEN before ELSE ReadAll(listing).value

\* Libraries.update() on an object constructed earlier.
UpdateSnapshot ==
    /\ out.op = "none"
    /\ \E listing \in Listings(disk) :
           /\ data' = SnapshotAfter(data, listing)
           /\ out' = [op |-> "update", arg |-> [before |-> data],
                      thrown |-> ReadAll(listing).thrown, value |-> <<>>]
    /\ UNCHANGED <<manifest, disk, cl, scratch, imp, exports, upd>>

\* The caller goes on, or catches what update() has thrown.
UpdateDone ==
    /\ out.op = "update"
    /\ out' = NoOutput
    /\ UNCHANGED <<manifest, disk, data, cl, scratch, imp, exports, upd>>

\* A library.json of the folder is overwritten with something that is not
\* JSON.
Corrupt(dir) ==
    /\ out.op = "none"
    /\ dir \in disk
    /\ ~ReadThrows(dir)
    /\ disk' = (disk \ {dir}) \cup {Corrupted(dir)}
    /\ UNCHANGED <<manifest, data, cl, out, scratch, imp, exports, upd>>

\* The Libraries object was constructed on a folder whose library.json files
\* could all be parsed; the folder is now one of those of the imports.
InitReload ==
    /\ disk \in ImportStores
    /\ data \in {read(l) : l \in UNION {ScanOrders(S) : S \in ImportStores}}
    /\ cl = NoCall
    /\ out = NoOutput
    /\ scratch = {}
    /\ imp = NoImport
    /\ exports = {}
    /\ upd = NoUpdate
    /\ manifest = NoManifest

NextReload ==
    \/ UpdateSnapshot
    \/ UpdateDone
    \/ \E dir \in PackagesOfLine \cup OtherLine : Corrupt(dir)

SpecReload == InitReload /\ [][NextReload]_vars

----------------------------------------------------------------------------
(* Exports in which cpSync or zipFolder throws *)

\* The directories copied by the first n turns of the forEach of createExport.
CopiedBefore(dirs, sourceFolders, n) ==
    {dir \in dirs : \E j \in 1..n : sourceFolders[j] = Some(dir.folderName)}

\* createExport in which cpSync throws for the i-th source folder, or, with
\* i one more than their number, zipFolder rejects after this.remove.  A
\* call that throws has written nothing.  What is under assets/temp stays,
\* since clearDirectorySync is the last statement of createExport.
ExportFailedAt(machineName, uuid, library, sourceFolders, i) ==
    /\ \A j \in 1..Len(sourceFolders) : IsDefined(sourceFolders[j])
    /\ out' = [op |-> "exportFailed",
               arg |-> [machineName |-> machineName, temp |-> TempExportName(uuid),
                        before |-> exports, at |-> i, of |-> Len(sourceFolders)],
               thrown |-> TRUE,
               value |-> {}]
    /\ exports' = IF i > Len(sourceFolders)
                  THEN RemoveExport(exports, UberNameOf(library))
                  ELSE exports
    /\ scratch' = IF CopiedBefore(disk, sourceFolders, i - 1) = {}
                  THEN scratch
                  ELSE WithScratchFiles(scratch, TempExportName(uuid),
                                        Zipped(CopiedBefore(disk, sourceFolders, i - 1)))

\* createExport(machineName, libraries) for the machine name of an
\* installed library, with a call of the file system that throws.
ExportFailFrom(machineName, compiled, sourceFolders) ==
    /\ ~compiled.thrown
    /\ \E uuid \in 1..MaxScratch :
       \E i \in 1..(Len(sourceFolders) + 1) :
           ExportFailedAt(machineName, uuid,
                          The(getLibraryJson(data, machineName, FALSE)),
                          sourceFolders, i)

ExportFail(machineName) ==
    /\ imp.pc = "idle"
    /\ cl.pc = "idle"
    /\ out.op = "none"
    /\ IsDefined(getLibraryJson(data, machineName, FALSE))
    /\ ExportFailFrom(machineName,
                      compileDependencies(data, disk, machineName),
                      SourceFolders(data, disk,
                                    InstalledInSomeVersion(
                                        data,
                                        compileDependencies(data, disk, machineName).value)))
    /\ UNCHANGED <<manifest, upd, disk, data, cl, imp>>

\* The libraries folder of the dependency queries, with an export of H5P.R
\* made earlier.
InitExportFail ==
    /\ disk \in DependencyStores
    /\ data \in {read(listing) : listing \in ScanOrders(disk)}
    /\ cl = NoCall
    /\ out = NoOutput
    /\ scratch = {}
    /\ imp = NoImport
    /\ exports = {[name |-> ExportFileName(<<"H5P.R">>, d.libraryJson), entries |-> {}] :
                      d \in {e \in disk : e.libraryJson.machineName = <<"H5P.R">>}}
    /\ upd = NoUpdate
    /\ manifest = NoManifest

NextExportFail ==
    \/ Export(<<"H5P.R">>)
    \/ ExportFail(<<"H5P.R">>)

SpecExportFail == InitExportFail /\ [][NextExportFail]_vars

----------------------------------------------------------------------------
(* UpdateCmd.updateManifest: manifest.json from the libraries folder *)

\* An entry of contentTypes: its id and, once it was filled from a
\* library.json, its version.
BlankEntry(machineName) == [id |-> machineName, version |-> Undefined]

\* sanitize, removeInvalidEntries: the entries with an id.
Sanitize(contentTypes) == SelectSeq(contentTypes, LAMBDA contentType : contentType.id # <<>>)

\* Manifest.getMachineNames.
getMachineNames(contentTypes) == [i \in 1..Len(contentTypes) |-> contentTypes[i].id]

\* Libraries.getMachineNamesOfContentTypes.
getMachineNamesOfContentTypes(libs) ==
    Unique([i \in 1..Len(SelectSeq(libs, LAMBDA library :
                              library.runnable = 1 /\ library.machineName # <<>>)) |->
               SelectSeq(libs, LAMBDA library :
                   library.runnable = 1 /\ library.machineName # <<>>)[i].machineName])

\* Libraries.getLibraryJsons.
getLibraryJsons(libs, machineNames) ==
    [i \in 1..Len(SelectSeq(machineNames, LAMBDA machineName :
                      IsDefined(getLibraryJson(libs, machineName, FALSE)))) |->
        The(getLibraryJson(
                libs,
                SelectSeq(machineNames, LAMBDA machineName :
                    IsDefined(getLibraryJson(libs, machineName, FALSE)))[i],
                FALSE))]

\* Manifest.syncMachineNames: this.data.contentTypes afterwards.
syncMachineNames(contentTypes, machineNamesOfContentTypes) ==
    SelectSeq(contentTypes, LAMBDA contentType :
        Includes(machineNamesOfContentTypes, contentType.id))
        \o [i \in 1..Len(SelectSeq(machineNamesOfContentTypes, LAMBDA machineName :
                             ~Includes(getMachineNames(contentTypes), machineName))) |->
               BlankEntry(SelectSeq(machineNamesOfContentTypes, LAMBDA machineName :
                              ~Includes(getMachineNames(contentTypes), machineName))[i])]

\* updateFromLibraries: the version of an entry from the library.json found
\* for its id.
FilledFrom(contentType, libraryJsons) ==
    IF \E i \in 1..Len(libraryJsons) : libraryJsons[i].machineName = contentType.id
    THEN [contentType EXCEPT
              !.version =
                  Some(VersionString(
                      libraryJsons[CHOOSE i \in 1..Len(libraryJsons) :
                                       /\ libraryJsons[i].machineName = contentType.id
                                       /\ \A j \in 1..(i - 1) :
                                              libraryJsons[j].machineName
                                                  # contentType.id]))]
    ELSE contentType

\* updateFromLibraries from this.data = this.read() on: blank entries for
\* the libraries without entry, then every entry filled from its library.
FromLibraries(readContentTypes, libraryJsons) ==
    [i \in 1..Len(syncMachineNames(readContentTypes,
                                    getMachineNames(readContentTypes)
                                        \o Unique(getMachineNames(
                                               [k \in 1..Len(libraryJsons) |->
                                                   [id |-> libraryJsons[k].machineName]])))) |->
        FilledFrom(
            syncMachineNames(readContentTypes,
                             getMachineNames(readContentTypes)
                                 \o Unique(getMachineNames(
                                        [k \in 1..Len(libraryJsons) |->
                                            [id |-> libraryJsons[k].machineName]])))[i],
            libraryJsons)]

\* Manifest.updateFromLibraries for the content types of the file and those
\* of this.data: this.data.contentTypes afterwards, which write() saves.
updateFromLibraries(fileContentTypes, dataContentTypes, libs) ==
    Sanitize(FromLibraries(Sanitize(fileContentTypes),
                           getLibraryJsons(libs, getMachineNames(dataContentTypes))))

\* updateManifest for the snapshot of its Libraries object.
ManifestUpdated(libs, contentTypes) ==
    /\ manifest' = [file |-> contentTypes, data |-> contentTypes]
    /\ out' = [op |-> "updateManifest", arg |-> [before |-> manifest.file],
               thrown |-> FALSE, value |-> <<>>]

\* UpdateCmd.updateManifest: new Manifest(), new Libraries(),
\* syncMachineNames and updateFromLibraries with its write().
UpdateManifest ==
    /\ out.op = "none"
    /\ \E listing \in ScanOrders(disk) :
           ManifestUpdated(
               read(listing),
               updateFromLibraries(
                   manifest.file,
                   syncMachineNames(Sanitize(manifest.file),
                                    getMachineNamesOfContentTypes(read(listing))),
                   read(listing)))
    /\ UNCHANGED <<disk, data, cl, scratch, imp, exports, upd>>

\* A library folder whose library.json says whether it is runnable.
RunnableDirectory(name, patch, runnable) ==
    [LibraryDirectory(name, 1, 0, patch, FALSE, <<>>, {}) EXCEPT
        !.libraryJson =
            [f \in {"machineName", "majorVersion", "minorVersion", "patchVersion",
                    "preloadedDependencies", "editorDependencies", "runnable"} |->
                IF f = "runnable" THEN runnable
                ELSE LibraryDirectory(name, 1, 0, patch, FALSE, <<>>, {}).libraryJson[f]]]

\* Libraries folders with or without H5P.A, H5P.B and H5P.C, each runnable
\* or not.
ManifestStores ==
    {a \cup b \cup c :
        a \in Optional({RunnableDirectory("H5P.A", 0, r) : r \in {0, 1}}),
        b \in Optional({RunnableDirectory("H5P.B", 0, r) : r \in {0, 1}}),
        c \in Optional({RunnableDirectory("H5P.C", 1, r) : r \in {0, 1}})}

\* The entries a manifest.json can hold: of the three machine names, blank
\* or with the version of an earlier update, and one without id.
ManifestEntries ==
    {BlankEntry(<<>>), BlankEntry(<<"H5P.A">>),
     [id |-> <<"H5P.A">>, version |-> Some(<<"1", ".", "0", ".", "0">>)],
     [id |-> <<"H5P.B">>, version |-> Some(<<"1", ".", "0", ".", "0">>)],
     [id |-> <<"H5P.C">>, version |-> Some(<<"1", ".", "0", ".", "0">>)]}

ManifestFiles ==
    {<<>>} \cup {<<e>> : e \in ManifestEntries}
        \cup {p \in ManifestEntries \X ManifestEntries : p[1].id # p[2].id}

InitManifest ==
    /\ disk \in ManifestStores
    /\ data \in {read(l) : l \in ScanOrders(disk)}
    /\ cl = NoCall
    /\ out = NoOutput
    /\ scratch = {}
    /\ imp = NoImport
    /\ exports = {}
    /\ upd = NoUpdate
    /\ manifest \in {[file |-> file, data |-> <<>>] : file \in ManifestFiles}

NextManifest == UpdateManifest

SpecManifest == InitManifest /\ [][NextManifest]_vars

----------------------------------------------------------------------------
(* Lookups in, and removals from, a libraries folder *)

\* A directory named H5P.A-1.4 that holds the library.json of H5P.A 1.3.0.
Misnamed == [Package(3, 0, FALSE) EXCEPT !.folderName = <<"H5P.A", "-", "1", ".", "4">>]

\* The libraries folders looked into: H5P.A 1.2 in one of its folder forms,
\* H5P.A 1.20, H5P.A 1.3 in a folder with its name or with another one, and
\* a library of another machine name.
LookupStores ==
    {a \cup b \cup c \cup d :
        a \in Optional(PackagesOfLine), b \in Optional(OtherLine),
        c \in Optional({Package(3, 0, FALSE), Misnamed}),
        d \in Optional({LibraryDirectory("H5P.B", 1, 2, 0, FALSE, <<>>, {})})}

\* The uber names asked for.
LookupNames ==
    {UberNameOf(Dependency("H5P.A", 1, minor)) : minor \in {2, 3, 4, 20}}
        \cup {UberNameOf(Dependency("H5P.B", 1, 2))}

\* An uber name with a patch version, and machine names alone.
LookupNamesWithPatch == {UberNameOf(Dependency("H5P.A", 1, 2)) \o <<".", "1">>}

MachineNamesAlone == {<<"H5P.A">>, <<"H5P.B">>}

\* The Libraries object is constructed on the folder as it is, or was
\* constructed while the folder was still empty.
InitLookups ==
    /\ disk \in LookupStores
    /\ data \in {read(l) : l \in ScanOrders(disk)} \cup {<<>>}
    /\ cl = NoCall
    /\ out = NoOutput
    /\ scratch = {}
    /\ imp = NoImport
    /\ exports = {}
    /\ upd = NoUpdate
    /\ manifest = NoManifest

\* getLibraryJson(uberName, { exact: true }).
FindExact(uberName) ==
    /\ out.op = "none"
    /\ out' = [op |-> "findExact", arg |-> uberName, thrown |-> FALSE,
               value |-> getLibraryJson(data, uberName, TRUE)]
    /\ UNCHANGED <<manifest, upd, disk, data, cl, scratch, imp, exports>>

\* getFolderPath(uberName).
FolderPathFor(uberName) ==
    /\ out.op = "none"
    /\ out' = [op |-> "folderPath", arg |-> uberName, thrown |-> FALSE,
               value |-> getFolderPath(data, disk, uberName)]
    /\ UNCHANGED <<manifest, upd, disk, data, cl, scratch, imp, exports>>

\* LibrariesCmd.remove: relevantFolders.
RelevantFolders(listing, uberName) ==
    SelectSeq([i \in 1..Len(listing) |-> listing[i].folderName], LAMBDA folderName :
        StartsWith(folderName,
                   IF decomposeUberName(uberName).majorVersion # Null
                          /\ decomposeUberName(uberName).minorVersion # Null
                   THEN decomposeUberName(uberName).machineName \o <<"-">>
                            \o decomposeUberName(uberName).majorVersion \o <<".">>
                            \o decomposeUberName(uberName).minorVersion
                   ELSE decomposeUberName(uberName).machineName \o <<"-">>))

\* Libraries.remove(libraryFileName): the directories left.
RemovedFrom(libs, dirs, libraryFileName) ==
    IF IsDefined(getFolderPath(libs, dirs, UberNameOfFolder(libraryFileName)))
    THEN WithoutFolder(dirs, The(getFolderPath(libs, dirs,
                                               UberNameOfFolder(libraryFileName))))
    ELSE dirs

\* LibrariesCmd.remove: the directories left, given relevantFolders.
RemoveRelevant(libs, dirs, relevantFolders) ==
    IF Len(relevantFolders) # 1 THEN dirs
    ELSE RemovedFrom(libs, dirs, relevantFolders[1])

\* The command `libraries remove`: its LibrariesCmd has just constructed
\* its Libraries; Libraries.remove ends with update() when it removed a
\* folder.
RemoveCommand(uberName) ==
    /\ out.op = "none"
    /\ Fresh
    /\ \E listing \in ScanOrders(disk) :
           disk' = RemoveRelevant(data, disk, RelevantFolders(listing, uberName))
    /\ data' \in IF disk' = disk THEN {data} ELSE {read(l) : l \in ScanOrders(disk')}
    /\ out' = [op |-> "remove", arg |-> [uberName |-> uberName, before |-> disk],
               thrown |-> FALSE, value |-> <<>>]
    /\ UNCHANGED <<manifest, upd, cl, scratch, imp, exports>>

NextLookups ==
    \/ \E uberName \in LookupNames : FindExact(uberName)
    \/ \E uberName \in LookupNames \cup LookupNamesWithPatch \cup MachineNamesAlone :
           FolderPathFor(uberName)
    \/ \E uberName \in LookupNames \cup MachineNamesAlone : RemoveCommand(uberName)
    \/ Reload

SpecLookups == InitLookups /\ [][NextLookups]_vars

----------------------------------------------------------------------------
(* updateServedData (src/unnamed/part_001), called by the cron jobs of the *)
(* server (src/unnamed/part_002) and by the update command                 *)
----------------------------------------------------------------------------

\* The calls that run on the event loop of the server process: one of them
\* runs from an await to the next before another one runs.  The update
\* command is a process of its own, whose file system calls fall anywhere
\* between those of the server.
ServerTasks == {"cron1", "cron2"}

MaxRuns == 1

\* manifest.json: the ids of its content types.
ManifestContentTypes == <<<<"H5P.A">>>>

\* What mirror() returned, which the cron callback passes on as
\* uberNamesToUpdate; the update command passes nothing.
NamesToUpdate(t) ==
    IF t \in ServerTasks
    THEN {<<>>, << <<"H5P.A", " ", "1", ".", "2", ".", "0">> >>}
    ELSE {<<>>}

CanRun(t) == t \notin ServerTasks \/ upd.loop \in {"none", t}

\* if (existsSync(config.updateLockFile)) { ...; return; }
UpdateCheck(t, names) ==
    /\ upd.pc[t] = "idle"
    /\ upd.runs[t] < MaxRuns
    /\ CanRun(t)
    /\ upd' = IF upd.lock
              THEN [upd EXCEPT !.pc[t] = "skipped", !.runs[t] = @ + 1]
              ELSE [upd EXCEPT !.pc[t] = "checked", !.runs[t] = @ + 1,
                               !.names[t] = names,
                               !.loop = IF t \in ServerTasks THEN t ELSE @]
    /\ UNCHANGED <<manifest, disk, data, cl, out, scratch, imp, exports>>

\* writeFileSync(config.updateLockFile, 'updating')
UpdateLock(t) ==
    /\ upd.pc[t] = "checked"
    /\ CanRun(t)
    /\ upd' = [upd EXCEPT !.pc[t] = "locked", !.lock = TRUE]
    /\ UNCHANGED <<manifest, disk, data, cl, out, scratch, imp, exports>>

\* The machine names of uberNamesToUpdate.
MachineNamesToUpdate(uberNamesToUpdate) ==
    [i \in 1..Len(uberNamesToUpdate) |->
        decomposeUberName(uberNamesToUpdate[i]).machineName]

\* updateHubRegistry: manifestData.contentTypes, limited to uberNamesToUpdate.
ContentTypesFor(uberNamesToUpdate) ==
    IF Len(uberNamesToUpdate) > 0
    THEN SelectSeq(ManifestContentTypes,
                   LAMBDA id : Includes(MachineNamesToUpdate(uberNamesToUpdate), id))
    ELSE ManifestContentTypes

\* HubRegistry.feed into the empty registry of new HubRegistry(): one entry
\* for a content type, with the version of getLibraryJson(contentType.id);
\* reading majorVersion of undefined throws.
feed(contentTypes, libs) ==
    IF \E i \in 1..Len(contentTypes) :
           ~IsDefined(getLibraryJson(libs, contentTypes[i], FALSE))
    THEN Thrown
    ELSE Returned([i \in 1..Len(contentTypes) |->
            [id |-> contentTypes[i],
             version |-> VersionString(The(getLibraryJson(libs, contentTypes[i], FALSE)))]])

RegistryWritten(t, fed) ==
    upd' = IF fed.thrown
           THEN [upd EXCEPT !.pc[t] = "rejected",
                            !.loop = IF t \in ServerTasks THEN "none" ELSE @]
           ELSE [upd EXCEPT !.pc[t] = "registry", !.registry = fed.value,
                            !.writes = @ + 1]

\* updateHubRegistry(uberNamesToUpdate), with the Libraries it constructs.
UpdateRegistry(t) ==
    /\ upd.pc[t] = "locked"
    /\ CanRun(t)
    /\ \E listing \in ScanOrders(disk) :
           RegistryWritten(t, feed(ContentTypesFor(upd.names[t]), read(listing)))
    /\ UNCHANGED <<manifest, disk, data, cl, out, scratch, imp, exports>>

\* updateExports: exporter.clearExport() when nothing is named.
UpdateClear(t) ==
    /\ upd.pc[t] = "registry"
    /\ CanRun(t)
    /\ exports' = IF Len(upd.names[t]) = 0 THEN {} ELSE exports
    /\ upd' = [upd EXCEPT !.pc[t] = "cleared"]
    /\ UNCHANGED <<manifest, disk, data, cl, out, scratch, imp>>

\* updateExports: the machine names createExport is called for.
ExportedMachineNames(uberNamesToUpdate) ==
    IF Len(uberNamesToUpdate) > 0 THEN MachineNamesToUpdate(uberNamesToUpdate)
    ELSE ManifestContentTypes

\* One createExport among those of machineNames.map(createExport).
AfterExport(state, name, exported) ==
    [thrown |-> state.thrown \/ exported.thrown,
     files |-> ExportsAfter(state.files, exported),
     temp |-> TempExportAfter(state.temp, name, exported)]

\* machineNames.map(createExport): every call runs up to its await, whether
\* or not an earlier one has thrown.
RECURSIVE ExportAll(_, _, _, _, _)
ExportAll(state, libs, dirs, machineNames, i) ==
    IF i > Len(machineNames) THEN state
    ELSE ExportAll(AfterExport(state, TempExportName(i),
                               createExport(libs, dirs, machineNames[i])),
                   libs, dirs, machineNames, i + 1)

ExportsCreated(t, all) ==
    /\ exports' = all.files
    /\ scratch' = all.temp
    /\ upd' = [upd EXCEPT !.pc[t] = IF all.thrown THEN "rejected" ELSE "awaiting",
                          !.loop = IF t \in ServerTasks THEN "none" ELSE @]

\* updateExports: await Promise.all(machineNames.map(createExport)), up to
\* the await; a createExport that throws rejects updateServedData.
UpdateCreate(t) ==
    /\ upd.pc[t] = "cleared"
    /\ CanRun(t)
    /\ \E listing \in ScanOrders(disk) :
           ExportsCreated(t, ExportAll([thrown |-> FALSE, files |-> exports,
                                        temp |-> scratch],
                                       read(listing), disk,
                                       ExportedMachineNames(upd.names[t]), 1))
    /\ UNCHANGED <<manifest, disk, data, cl, out, imp>>

\* if (existsSync(config.updateLockFile)) { unlinkSync(config.updateLockFile); }
UpdateUnlock(t) ==
    /\ upd.pc[t] = "awaiting"
    /\ CanRun(t)
    /\ upd' = [upd EXCEPT !.pc[t] = "done", !.lock = FALSE]
    /\ UNCHANGED <<manifest, disk, data, cl, out, scratch, imp, exports>>

\* The call has returned, or has been rejected.
UpdateReturn(t) ==
    /\ upd.pc[t] \in {"skipped", "done", "rejected"}
    /\ upd' = [upd EXCEPT !.pc[t] = "idle"]
    /\ UNCHANGED <<manifest, disk, data, cl, out, scratch, imp, exports>>

\* The stores the served data is updated from: H5P.A is installed.
UpdateStores ==
    {S \in ImportStores : \E dir \in S : dir.libraryJson.minorVersion = 2}

InitUpdate ==
    /\ disk \in UpdateStores
    /\ data = <<>>
    /\ cl = NoCall
    /\ out = NoOutput
    /\ scratch = {}
    /\ imp = NoImport
    /\ exports \in {{}, {ArtifactOf(Package(2, 0, FALSE))}}
    /\ upd = NoUpdate
    /\ manifest = NoManifest

NextUpdate ==
    \/ \E t \in UpdateTasks : \E names \in NamesToUpdate(t) : UpdateCheck(t, names)
    \/ \E t \in UpdateTasks : UpdateLock(t)
    \/ \E t \in UpdateTasks : UpdateRegistry(t)
    \/ \E t \in UpdateTasks : UpdateClear(t)
    \/ \E t \in UpdateTasks : UpdateCreate(t)
    \/ \E t \in UpdateTasks : UpdateUnlock(t)
    \/ \E t \in UpdateTasks : UpdateReturn(t)

SpecUpdate == InitUpdate /\ [][NextUpdate]_vars

----------------------------------------------------------------------------
(* compareVersions and isNewerPatchVersion on version strings *)
----------------------------------------------------------------------------

MaxPart == 3

\* The numbers of a version: a major version, then at most a minor and a
\* patch version, some of them of two digits.
MajorParts == 1..2
VersionParts == 0..MaxPart \cup {9, 10}

VersionNumbers ==
    {<<major>> : major \in MajorParts}
        \cup {<<major, minor>> : major \in MajorParts, minor \in VersionParts}
        \cup {<<major, minor, patch>> :
                 major \in MajorParts, minor \in VersionParts, patch \in VersionParts}

\* `${major}.${minor}.${patch}`, for as many numbers as there are.
VersionText(numbers) ==
    Join([i \in 1..Len(numbers) |-> NumToStr(numbers[i])], ".")

InitVersions ==
    /\ disk = {}
    /\ data = <<>>
    /\ cl = NoCall
    /\ out \in {[op |-> "none", arg |-> [first |-> first, second |-> second],
                  thrown |-> FALSE, value |-> <<>>] :
                     first \in VersionNumbers, second \in VersionNumbers}
    /\ scratch = {}
    /\ imp = NoImport
    /\ exports = {}
    /\ upd = NoUpdate
    /\ manifest = NoManifest

\* compareVersions(v1, v2).
CompareVersions ==
    /\ out.op = "none"
    /\ out' = [out EXCEPT !.op = "compareVersions",
                          !.value = compareVersions(VersionText(out.arg.first),
                                                    VersionText(out.arg.second))]
    /\ UNCHANGED <<manifest, disk, data, cl, scratch, imp, exports, upd>>

\* isNewerPatchVersion(old, candidate).
IsNewerPatchVersion ==
    /\ out.op = "none"
    /\ out' = [out EXCEPT !.op = "isNewerPatchVersion",
                          !.value = isNewerPatchVersion(VersionText(out.arg.first),
                                                        VersionText(out.arg.second))]
    /\ UNCHANGED <<manifest, disk, data, cl, scratch, imp, exports, upd>>

NextVersions ==
    \/ CompareVersions
    \/ IsNewerPatchVersion

SpecVersions == InitVersions /\ [][NextVersions]_vars

----------------------------------------------------------------------------
(* getDependencies for the installed libraries of a folder *)
----------------------------------------------------------------------------

\* H5P.A 1.0 with at most MaxDeps of four declared dependencies, one of
\* which is declared both as preloaded and as editor dependency.
DeclaringVariants ==
    Variants("H5P.A", 1, 0, 0, {FALSE},
             <<Candidate("preloaded", "H5P.C", 1, 0),
               Candidate("preloaded", "H5P.B", 2, 0),
               Candidate("editor", "H5P.C", 1, 0),
               Candidate("editor", "H5P.X", 9, 9)>>)

InitDirect ==
    /\ disk \in {{a} \cup c1 : a \in DeclaringVariants, c1 \in Optional(VariantsC1)}
    /\ data \in {read(listing) : listing \in ScanOrders(disk)}
    /\ cl = NoCall
    /\ out = NoOutput
    /\ scratch = {}
    /\ imp = NoImport
    /\ exports = {}
    /\ upd = NoUpdate
    /\ manifest = NoManifest

NextDirect ==
    \E folder \in FolderNames(disk), type \in {"all", "mandatory", "optional"} :
        QueryDependencies(UberNameOfFolder(folder), type)

SpecDirect == InitDirect /\ [][NextDirect]_vars

----------------------------------------------------------------------------
(* getDependencies for a machine name without version *)

\* H5P.A 1.0 with its declared dependencies, and none, one or both of the
\* minor lines of H5P.C.
InitByName ==
    /\ disk \in {{a} \cup c1 \cup c2 :
                    a \in DeclaringVariants,
                    c1 \in Optional(VariantsC1), c2 \in Optional(VariantsC2)}
    /\ data \in {read(listing) : listing \in ScanOrders(disk)}
    /\ cl = NoCall
    /\ out = NoOutput
    /\ scratch = {}
    /\ imp = NoImport
    /\ exports = {}
    /\ upd = NoUpdate
    /\ manifest = NoManifest

\* getDependencies(machineName, { type }) and getDependencies(uberName,
\* { type }) for the libraries of the folder.
NextByName ==
    \/ \E d \in disk, type \in {"all", "mandatory", "optional"} :
           QueryDependencies(d.libraryJson.machineName, type)
    \/ \E folder \in FolderNames(disk), type \in {"all", "mandatory", "optional"} :
           QueryDependencies(UberNameOfFolder(folder), type)

SpecByName == InitByName /\ [][NextByName]_vars

----------------------------------------------------------------------------
(* checkDependencies over folders whose names differ from their library.json *)
----------------------------------------------------------------------------

\* A libraries folder as the check command finds it: the snapshot is the one
\* the Libraries object read from the folder.
InitMisnamed ==
    /\ disk \in LookupStores
    /\ data \in {read(l) : l \in ScanOrders(disk)}
    /\ cl = NoCall
    /\ out = NoOutput
    /\ scratch = {}
    /\ imp = NoImport
    /\ exports = {}
    /\ upd = NoUpdate
    /\ manifest = NoManifest

\* checkDependencies: checkForConflictingDependencies for the uber name of
\* each folder name, with compileTotalDependencyList activation by activation.
NextMisnamed ==
    \/ \E folder \in FolderNames(disk) : CompileStart(folder)
    \/ CompileCall
    \/ CompileReturn
    \/ ReportConflicts

SpecMisnamed == InitMisnamed /\ [][NextMisnamed]_vars

----------------------------------------------------------------------------
(* Exporter.compileDependencies on stores with cyclic dependencies *)
----------------------------------------------------------------------------

\* compileDependencies(uberName, libraries) with a new `checked`, as
\* createExport calls it; the array `checked` after the call is kept.
CompileDependencies(uberName) ==
    /\ cl.pc = "idle"
    /\ out.op = "none"
    /\ LET compiled == compileDependenciesFrom(data, disk, uberName, <<>>)
       IN  out' = [op |-> "compiled", arg |-> uberName, thrown |-> compiled.thrown,
                   value |-> compiled.value, checked |-> compiled.checked]
    /\ UNCHANGED <<manifest, upd, exports, disk, data, cl, scratch, imp>>

\* The names compileDependencies is called with: the machine name of an
\* installed library (createExport) or its `machineName major.minor`.
NextCompile ==
    \E d \in disk :
        \E uberName \in {d.libraryJson.machineName, UberNameOf(d.libraryJson)} :
            CompileDependencies(uberName)

SpecCompile == InitDeps /\ [][NextCompile]_vars

----------------------------------------------------------------------------
(* MirrorCmd (src/unnamed/part_000): a content type of the remote list *)
----------------------------------------------------------------------------

\* Libraries.getList({ filter: { machineName } }).
getList(libs, machineName) ==
    [i \in 1..Len(SelectSeq(libs, LAMBDA l : l.machineName = machineName)) |->
        UberNameOf(SelectSeq(libs, LAMBDA l : l.machineName = machineName)[i])
            \o <<".">>
            \o NumToStr(SelectSeq(libs, LAMBDA l : l.machineName = machineName)[i]
                            .patchVersion)]

\* processContentType: localVersions (the sort does not matter to what follows).
LocalVersions(libs, machineName) ==
    [i \in 1..Len(getList(libs, machineName)) |->
        decomposeUberName(getList(libs, machineName)[i]).majorVersion \o <<".">>
            \o decomposeUberName(getList(libs, machineName)[i]).minorVersion \o <<".">>
            \o decomposeUberName(getList(libs, machineName)[i]).patchVersion]

\* processContentType: remoteVersionIsNewer with some in place of every.
remoteVersionIsNewerThanSome(remoteVersion, localVersions) ==
    \/ Len(localVersions) = 0
    \/ \E i \in 1..Len(localVersions) : compareVersions(remoteVersion, localVersions[i]) > 0

\* processContentType: remoteVersionIsNewer.
remoteVersionIsNewer(remoteVersion, localVersions) ==
    \/ Len(localVersions) = 0
    \/ \A i \in 1..Len(localVersions) : compareVersions(remoteVersion, localVersions[i]) > 0

\* The entries of the remote list: H5P.A in a version of the lines 1.2 and
\* 1.20.
RemoteItems ==
    {[id |-> p.libraryJson.machineName,
      version |-> [major |-> p.libraryJson.majorVersion,
                   minor |-> p.libraryJson.minorVersion,
                   patch |-> p.libraryJson.patchVersion]] :
        p \in PackagesOfLine \cup OtherLine}

\* What fetchH5PContentType gives for an item: an error text, or the archive
\* of the package in that version, its folder named in either form.
Fetched(item) ==
    {[ok |-> FALSE, entries |-> {}]}
        \cup {[ok |-> TRUE, entries |-> Zipped({p})] :
                 p \in {q \in PackagesOfLine \cup OtherLine :
                            /\ q.libraryJson.machineName = item.id
                            /\ q.libraryJson.majorVersion = item.version.major
                            /\ q.libraryJson.minorVersion = item.version.minor
                            /\ q.libraryJson.patchVersion = item.version.patch}}

\* processContentType up to the call of importer.import, or to its end when
\* that call is not made.
Processed(item, blob, libs, isNewer) ==
    /\ out' = [op |-> IF isNewer /\ blob.ok THEN "importing" ELSE "processed",
               arg |-> [item |-> item, before |-> disk,
                        imported |-> isNewer /\ blob.ok],
               thrown |-> FALSE, value |-> Undefined]
    /\ imp' = IF isNewer /\ blob.ok
              THEN Entered([kind |-> "blob", path |-> <<>>, entries |-> blob.entries],
                           disk, FALSE)
              ELSE imp
    /\ data' = libs

\* mirror(): this.libraries.update(), and processContentType for an item of
\* the list that was fetched.
ProcessContentType(item, blob) ==
    /\ imp.pc = "idle"
    /\ out.op = "none"
    /\ \E listing \in ScanOrders(disk) :
           Processed(item, blob, read(listing),
                     remoteVersionIsNewer(
                         VersionText(<<item.version.major, item.version.minor,
                                       item.version.patch>>),
                         LocalVersions(read(listing), item.id)))
    /\ UNCHANGED <<manifest, disk, cl, scratch, exports, upd>>

\* processContentType after importer.import has returned: updateLocalMetadata
\* (with its this.libraries.update()) and the uber name, if it returned true.
ProcessImported ==
    /\ out.op = "importing"
    /\ imp.pc = "returned"
    /\ out' = [out EXCEPT !.op = "processed",
                          !.value = IF imp.ret = Some(TRUE)
                                    THEN Some(out.arg.item.id) ELSE Undefined]
    /\ data' \in IF imp.ret = Some(TRUE) THEN {read(l) : l \in ScanOrders(disk)}
                  ELSE {data}
    /\ imp' = NoImport
    /\ UNCHANGED <<manifest, disk, cl, scratch, exports, upd>>

\* The mirror run is over.
MirrorDone ==
    /\ out.op = "processed"
    /\ out' = NoOutput
    /\ UNCHANGED <<manifest, disk, data, cl, scratch, imp, exports, upd>>

NextMirror ==
    \/ \E item \in RemoteItems : \E blob \in Fetched(item) : ProcessContentType(item, blob)
    \/ CreateTemp
    \/ Materialize
    \/ Validate
    \/ Extract
    \/ Permit
    \/ Map
    \/ MergeNext
    \/ Cleanup
    \/ ImportFail
    \/ ProcessImported
    \/ MirrorDone

SpecMirror == InitImport /\ [][NextMirror]_vars

----------------------------------------------------------------------------
(* Claims about the dependency queries *)

UberName(name, major, minor) == UberNameOf(Dependency(name, major, minor))

NoDuplicates(arr) == \A i, j \in 1..Len(arr) : i # j => arr[i] # arr[j]

\* The uber names one step of getDependencies(., all) leads to from a set.
DirectlyFrom(libs, dirs, S) ==
    UNION {Range(getDependencies(libs, dirs, uberName, "all").value) : uberName \in S}

\* The least set that holds S and is closed under getDependencies(., all).
RECURSIVE ClosedUnder(_, _, _)
ClosedUnder(libs, dirs, S) ==
    IF DirectlyFrom(libs, dirs, S) \subseteq S THEN S
    ELSE ClosedUnder(libs, dirs, S \cup DirectlyFrom(libs, dirs, S))

ReachableFrom(libs, dirs, uberName) == ClosedUnder(libs, dirs, {uberName})

DependsOn(libs, dirs, from, to) ==
    Includes(getDependencies(libs, dirs, from, "all").value, to)

\* What is left of a call of compileTotalDependencyList that can reach
\* `reachable` uber names: the uber names not yet expanded and the
\* activations still to return.
Remaining(call, reachable) ==
    IF call.pc = "call" THEN 2 * reachable + 2 - Len(call.expanded)
    ELSE IF call.pc = "return" THEN Len(call.stack)
    ELSE 0

Running == cl.pc \in {"call", "return"}

ReachableCount == Cardinality(ReachableFrom(data, disk, cl.root))

\* C1: compileTotalDependencyList, started for an installed library, calls
\* getDependencies at most once for each minor-line uber name and comes to
\* its end: while it runs its next step is defined (an activation has a name
\* to work on and an array to return into), every step lowers a natural
\* number, and it never throws.
C1_TerminatesWithoutReExpansion ==
    /\ [](NoDuplicates(cl.expanded) /\ cl.pc # "thrown")
    /\ [](Running => /\ Remaining(cl, ReachableCount) >= 0
                     /\ Len(cl.stack) >= 1
                     /\ cl.pc = "call" => cl.uberName # Null)
    /\ [][Running => Remaining(cl', ReachableCount) < Remaining(cl, ReachableCount)]_vars

\* C1 witness: the call for H5P.A 1.0 has returned in a store where H5P.A 1.0
\* and H5P.B 2.0 depend on each other, and both were expanded.
C1_Witness ==
    /\ cl.pc = "done"
    /\ cl.root = UberName("H5P.A", 1, 0)
    /\ DependsOn(data, disk, UberName("H5P.A", 1, 0), UberName("H5P.B", 2, 0))
    /\ DependsOn(data, disk, UberName("H5P.B", 2, 0), UberName("H5P.A", 1, 0))
    /\ Includes(cl.expanded, UberName("H5P.A", 1, 0))
    /\ Includes(cl.expanded, UberName("H5P.B", 2, 0))

\* C2: what compileTotalDependencyList returns for an installed library is,
\* without duplicates, exactly the set of uber names reachable from it along
\* getDependencies(., all).
C2_ClosureIsReachableSet ==
    cl.pc = "done" =>
        /\ NoDuplicates(cl.result)
        /\ Range(cl.result) = ReachableFrom(data, disk, cl.root)
        /\ compileTotalDependencyList(data, disk, cl.root) = Returned(cl.result)

\* C2 witness: the call for H5P.R 1.0 has returned; H5P.B 2.0 is reached both
\* directly and through H5P.A 1.0, and an installed H5P.C 1.0 is not reached.
C2_Witness ==
    /\ cl.pc = "done"
    /\ cl.root = UberName("H5P.R", 1, 0)
    /\ DependsOn(data, disk, UberName("H5P.R", 1, 0), UberName("H5P.A", 1, 0))
    /\ DependsOn(data, disk, UberName("H5P.R", 1, 0), UberName("H5P.B", 2, 0))
    /\ DependsOn(data, disk, UberName("H5P.A", 1, 0), UberName("H5P.B", 2, 0))
    /\ Includes(cl.result, UberName("H5P.B", 2, 0))
    /\ IsDefined(getLibraryJson(data, UberName("H5P.C", 1, 0), TRUE))
    /\ ~Includes(cl.result, UberName("H5P.C", 1, 0))

\* The libraries of one machine name in the data that was read.
InstalledOf(libs, machineName) ==
    {libs[i] : i \in {j \in 1..Len(libs) : libs[j].machineName = machineName}}

\* C8: getLibraryJson called with a machine name only returns, whatever the
\* order in which the library folders were read, a library of that machine
\* name that no installed one exceeds under compareVersions, and undefined
\* when none is installed.
C8_FindLatestIsGreatest ==
    out.op = "latest" =>
        LET installed == InstalledOf(data, decomposeUberName(out.arg).machineName)
        IN  IF installed = {} THEN out.value = Undefined
            ELSE /\ IsDefined(out.value)
                 /\ The(out.value) \in installed
                 /\ \A library \in installed :
                        compareVersions(VersionString(The(out.value)),
                                        VersionString(library)) >= 0

\* The major.minor versions with which a machine name occurs among uber names.
VersionsOf(uberNames, machineName) ==
    {MachineNameEntry(uberName).version :
        uberName \in {u \in uberNames : MachineNameEntry(u).machineName = machineName}}

MachineNamesOf(uberNames) ==
    {MachineNameEntry(uberName).machineName : uberName \in uberNames}

\* C9: checkForConflictingDependencies reports a machine name if and only if
\* it occurs with two or more major.minor versions among the uber names
\* reachable from the library, in one message that lists exactly those
\* versions, each once.
C9_ConflictsAreMultiVersionNames ==
    out.op = "conflicts" =>
        LET closure == ReachableFrom(data, disk, out.arg)
            reported == {out.value[i].machineName : i \in 1..Len(out.value)}
        IN  /\ ~out.thrown
            /\ reported = {machineName \in MachineNamesOf(closure) :
                              Cardinality(VersionsOf(closure, machineName)) >= 2}
            /\ \A i, j \in 1..Len(out.value) :
                   out.value[i].machineName = out.value[j].machineName => i = j
            /\ \A i \in 1..Len(out.value) :
                   /\ Range(out.value[i].versions)
                          = VersionsOf(closure, out.value[i].machineName)
                   /\ NoDuplicates(out.value[i].versions)

\* C9 witness: H5P.R 1.0 depends on H5P.A 1.0 and H5P.B 2.0, H5P.A 1.0 on
\* H5P.C 1.0 and H5P.B 2.0 on H5P.C 2.0; the one message is about H5P.C with
\* the versions 1.0 and 2.0.
C9_Witness ==
    /\ out.op = "conflicts"
    /\ out.arg = UberName("H5P.R", 1, 0)
    /\ DependsOn(data, disk, UberName("H5P.R", 1, 0), UberName("H5P.A", 1, 0))
    /\ DependsOn(data, disk, UberName("H5P.R", 1, 0), UberName("H5P.B", 2, 0))
    /\ DependsOn(data, disk, UberName("H5P.A", 1, 0), UberName("H5P.C", 1, 0))
    /\ DependsOn(data, disk, UberName("H5P.B", 2, 0), UberName("H5P.C", 2, 0))
    /\ Len(out.value) = 1
    /\ out.value[1].machineName = <<"H5P.C">>
    /\ Range(out.value[1].versions) = {<<"1", ".", "0">>, <<"2", ".", "0">>}

\* The directory of the store a library was named after.
DirectoryOf(dirs, uberName) ==
    CHOOSE d \in dirs : UberNameOfFolder(d.folderName) = uberName

\* Whether a directory of the store holds the library an uber name names.
IsInstalled(dirs, uberName) ==
    \E d \in dirs :
        uberName = d.libraryJson.machineName \o <<" ">>
                      \o MinorVersionString(d.libraryJson.majorVersion,
                                            d.libraryJson.minorVersion)

\* The dependencies that the library.json of a directory declares, and those
\* that the semantics.json of the same directory names.
DeclaredIn(d) ==
    Range(DependencyUberNames(d.libraryJson.preloadedDependencies))
        \cup Range(DependencyUberNames(d.libraryJson.editorDependencies))

EmbeddedIn(d) == Range(OptionalOf(d.semantics))

\* C10: for an installed library checkForMissingDependencies gives exactly one
\* error for each dependency of its library.json and exactly one warning for
\* each dependency named in its semantics.json that is not installed in
\* exactly that major.minor version, and nothing else.
C10_OneFindingPerMissingDependency ==
    out.op = "missing" =>
        LET own == DirectoryOf(disk, out.arg)
            findings(level) ==
                SelectSeq(out.value, LAMBDA message : message.level = level)
            reportedAs(level) ==
                {findings(level)[i].dependency : i \in 1..Len(findings(level))}
        IN  /\ ~out.thrown
            /\ \A i \in 1..Len(out.value) : out.value[i].level \in {"error", "warning"}
            /\ reportedAs("error") = {u \in DeclaredIn(own) : ~IsInstalled(disk, u)}
            /\ reportedAs("warning") = {u \in EmbeddedIn(own) : ~IsInstalled(disk, u)}
            /\ Len(findings("error")) = Cardinality(reportedAs("error"))
            /\ Len(findings("warning")) = Cardinality(reportedAs("warning"))

\* Whether some installed library of the machine name of a dependency has a
\* major.minor version above the one the dependency names.
OlderThanInstalled(libs, dependency) ==
    \E library \in InstalledOf(libs, decomposeUberName(dependency).machineName) :
        compareVersions(UsedVersion(dependency),
                        MinorVersionString(library.majorVersion,
                                           library.minorVersion)) = -1

\* C11: checkForOutdatedDependencyUse for a library folder does not throw
\* and warns about exactly those dependencies, declared in the library.json
\* or named in the semantics.json of the folder, whose major.minor is older
\* than that of the latest installed library of the same machine name.
C11_OutdatedIffOlderThanLatest ==
    out.op = "outdated" =>
        /\ ~out.thrown
        /\ {out.value[i].dependency : i \in 1..Len(out.value)}
               = {u \in DeclaredIn(DirectoryOf(disk, out.arg))
                          \cup EmbeddedIn(DirectoryOf(disk, out.arg)) :
                      OlderThanInstalled(data, u)}

\* Whether an identity, given with a major.minor or as a machine name only,
\* names an installed library.
Resolves(libs, uberName) ==
    \E library \in InstalledOf(libs, decomposeUberName(uberName).machineName) :
        \/ decomposeUberName(uberName).majorVersion = Null
        \/ uberName = UberNameOf(library)

\* C12: getDependencies for an identity that names no installed library
\* does not throw and returns no dependency, whatever the type asked for.
C12_UnresolvedHasNoDependencies ==
    (out.op = "dependencies" /\ ~Resolves(data, out.arg.uberName)) =>
        /\ ~out.thrown
        /\ out.value = <<>>

\* The libraries of a snapshot that an identity with major.minor names.
NamedBy(libs, uberName) ==
    {libs[i] : i \in {j \in 1..Len(libs) : UberNameOf(libs[j]) = uberName}}

\* The identities a library.json declares, as `machineName major.minor`.
DeclaredBy(library) ==
    {UberNameOf(dependency) :
        dependency \in Range(library.preloadedDependencies)
                           \cup Range(library.editorDependencies)}

\* C25: for an installed identity given with its major.minor,
\* getDependencies(identity, mandatory) holds, each once, the identity's own
\* minor line and every entry of preloadedDependencies and
\* editorDependencies as machineName major.minor, and nothing else.
C25_MandatoryIsOwnLineAndDeclared ==
    (out.op = "dependencies" /\ out.arg.type = "mandatory"
        /\ NamedBy(data, out.arg.uberName) # {})
        => /\ ~out.thrown
           /\ NoDuplicates(out.value)
           /\ \A library \in NamedBy(data, out.arg.uberName) :
                  Range(out.value) = {out.arg.uberName} \cup DeclaredBy(library)

\* C25, its case: the mandatory dependencies of a library that declares one
\* identity as preloaded and as editor dependency have been asked for.
C25_Witness ==
    /\ out.op = "dependencies"
    /\ out.arg.type = "mandatory"
    /\ \E library \in NamedBy(data, out.arg.uberName) :
           /\ library.preloadedDependencies # <<>>
           /\ library.preloadedDependencies = library.editorDependencies
    /\ Len(out.value) = 2

----------------------------------------------------------------------------
(* Claims about the Importer *)

\* The entry names that resolve outside of any directory below assets/temp.
OutsideNames ==
    {<<".", ".", "/", ".", ".", "/">> \o EtcPasswd, <<"/">> \o EtcPasswd}

HasOutsideEntry(input) == \E entry \in input.entries : entry.path \in OutsideNames

ZipFileNames == {<<"temp.zip">>, <<"uploaded.zip">>}

\* C3: while and after import() works on an archive with an entry that
\* resolves outside of the scratch directory, the installed directories are
\* those from before the call, the scratch directories hold nothing but the
\* archive file itself, extraction is never done, and the call returns false.
C3_OutsideEntryAbortsImport ==
    (imp.pc # "idle" /\ HasOutsideEntry(imp.input)) =>
        /\ disk = imp.before
        /\ \A d \in scratch : \A f \in d.files : f.path \in ZipFileNames
        /\ ~Includes(imp.steps, "extractAllTo")
        /\ imp.pc = "returned" => imp.ret = Some(FALSE)

\* C3 witness: import() has returned false for an archive with the entry
\* ../../etc/passwd because validateZipEntries threw, with libraries installed.
C3_Witness ==
    /\ imp.pc = "returned"
    /\ \E entry \in imp.input.entries :
           entry.path = <<".", ".", "/", ".", ".", "/">> \o EtcPasswd
    /\ imp.caught = "validateZipEntries"
    /\ imp.ret = Some(FALSE)
    /\ disk # {}

\* The steps of a call that comes to its end for an archive of n packages.
AllSteps(n) ==
    <<"createTempFolder", "materialize", "validateZipEntries", "extractAllTo",
      "setPermissions", "getIdentityMapping">> \o [i \in 1..n |-> "updateLibraries"]

\* C4: import() returns true only after the scratch directory was created,
\* the archive written to it, validated and extracted, the identities mapped
\* and every package of the archive merged, with nothing thrown; when a step
\* throws it returns false; and when it returns, the scratch directory of the
\* call does not exist.
C4_TrueOnlyAfterAllSteps ==
    imp.pc = "returned" =>
        /\ imp.ret \in {Some(TRUE), Some(FALSE)}
        /\ imp.ret = Some(TRUE) =>
               /\ imp.caught = "none"
               /\ imp.steps = AllSteps(Cardinality(LibraryFoldersIn(imp.input.entries)))
        /\ imp.caught # "none" => imp.ret = Some(FALSE)
        /\ \A d \in scratch : d.name # imp.temp

\* C4 witness: a step threw after the first package of the archive was
\* merged; import() has returned false and no scratch directory is left.
C4_Witness ==
    /\ imp.pc = "returned"
    /\ imp.caught = "io"
    /\ Includes(imp.steps, "updateLibraries")
    /\ imp.ret = Some(FALSE)
    /\ imp.temp # Null
    /\ scratch = {}

\* Whether the archive of an input has a symbolic link among its entries.
HasSymbolicLink(input) == \E entry \in input.entries : entry.kind = "symlink"

\* C15: once an archive with a symbolic link has been extracted, import()
\* moves no package into the installed directories and removes none of
\* them, and when it returns it returns false and the scratch directory of
\* the call is gone.
C15_SymbolicLinkAbortsImport ==
    (HasSymbolicLink(imp.input) /\ Includes(imp.steps, "extractAllTo")) =>
        /\ disk = imp.before
        /\ ~Includes(imp.steps, "setPermissions")
        /\ ~Includes(imp.steps, "updateLibraries")
        /\ imp.pc = "returned" =>
               /\ imp.ret = Some(FALSE)
               /\ \A d \in scratch : d.name # imp.temp

\* C15 witness: import() has returned false because setPermissions threw
\* on a symbolic link two folders below the scratch directory, with
\* libraries installed.
C15_Witness ==
    /\ imp.pc = "returned"
    /\ \E entry \in imp.input.entries :
           entry.kind = "symlink" /\ Len(Split(entry.path, "/")) = 3
    /\ imp.caught = "setPermissions"
    /\ imp.ret = Some(FALSE)
    /\ disk # {}
    /\ scratch = {}

\* Whether a path names, once resolved, a regular file strictly inside
\* assets/temp.
IsPermittedFile(filePath) ==
    LET resolved == resolve(<<"/">>, filePath)
    IN  /\ Len(resolved) > Len(TempPath) + 1
        /\ SubSeq(resolved, 1, Len(TempPath) + 1) = TempPath \o <<"/">>
        /\ \E u \in Uploads : u.path = resolved /\ u.kind = "file"

OnePerLine(dirs) ==
    \A x, y \in dirs :
        (/\ x.libraryJson.machineName = y.libraryJson.machineName
         /\ x.libraryJson.majorVersion = y.libraryJson.majorVersion
         /\ x.libraryJson.minorVersion = y.libraryJson.minorVersion) => x = y

\* C5: from a store with at most one directory for a minor line, whenever no
\* import is running there is at most one installed directory for a machine
\* name and a major.minor version.
C5_OneDirectoryPerMinorLine ==
    imp.pc \in {"idle", "returned"} => OnePerLine(disk)

\* C6: when import() has returned true for the archive that the call before
\* it returned true for, the installed directories are those the first call
\* left, with at most one directory for a minor line.
C6_SecondImportChangesNothing ==
    (imp.pc = "returned" /\ imp.again /\ imp.ret = Some(TRUE)) =>
        /\ disk = imp.first
        /\ OnePerLine(disk)

\* Whether two library directories are of one machine name and major.minor.
SameLine(x, y) ==
    /\ x.libraryJson.machineName = y.libraryJson.machineName
    /\ x.libraryJson.majorVersion = y.libraryJson.majorVersion
    /\ x.libraryJson.minorVersion = y.libraryJson.minorVersion

\* The package folders of the archive of an input.
PackagesIn(input) == LibraryDirectoriesIn(input.entries)

\* import() has returned true for an archive with the one package p.
ImportedAlone(p) ==
    /\ imp.pc = "returned"
    /\ imp.ret = Some(TRUE)
    /\ ~imp.again
    /\ PackagesIn(imp.input) = {p}

\* C27: after the import of a package that is a newer patch of an installed
\* minor line, the new version is the only directory of that line, and the
\* directories of every other minor line and machine name are those from
\* before the import.
C27_NewerPatchReplacesInPlace ==
    \A p \in PackagesOfLine \cup OtherLine :
        (/\ ImportedAlone(p)
         /\ \E d \in imp.before :
                SameLine(d, p) /\ d.libraryJson.patchVersion < p.libraryJson.patchVersion)
            => disk = {d \in imp.before : ~SameLine(d, p)} \cup {p}

\* C28: after the import of a package that is older than the installed
\* package of its machine name and minor line, the installed directory is
\* still there with its newer version.
C28_NewerInstalledIsKept ==
    \A p \in PackagesOfLine \cup OtherLine :
        ImportedAlone(p)
            => \A d \in imp.before :
                   (SameLine(d, p) /\ d.libraryJson.patchVersion > p.libraryJson.patchVersion)
                       => d \in disk

\* Whether the installed identity that updateLibraries finds for a new
\* identity, if it finds one, is of the machine name and major.minor of it.
OfSameLine(newIdentity, localIdentity) ==
    IsDefined(localIdentity)
        => /\ The(localIdentity).machineName = newIdentity.machineName
           /\ SubSeq(Split(The(localIdentity).version, "."), 1, 2)
                  = SubSeq(Split(newIdentity.version, "."), 1, 2)

\* C29: the installed package that updateLibraries compares an extracted
\* package with has the machine name and the major and minor numbers of the
\* extracted package: 1.2.x is never matched with an installed 1.20.y.
C29_ComparedWithSameMinorLine ==
    (imp.pc = "mapped" /\ imp.k <= Len(imp.newMapping))
        => OfSameLine(imp.newMapping[imp.k],
                      FindLocalIdentity(imp.localMapping, imp.newMapping[imp.k]))

\* Whether a sequence is the beginning of another.
IsPrefix(s, t) == Len(s) <= Len(t) /\ SubSeq(t, 1, Len(s)) = s

\* C30: within one call of import(), the installed directories differ from
\* those at its start only after validateZipEntries has passed all entries
\* of the archive and setPermissions has walked the whole extracted tree;
\* the steps are done in the order scratch folder, archive file, entry
\* check, extraction, walk, identity mapping, merges; a call that has
\* returned has no scratch directory left, whether it failed or not.
C30_MergesOnlyAfterChecksInOrder ==
    imp.pc # "idle" =>
        /\ IsPrefix(imp.steps,
                    AllSteps(Cardinality(LibraryFoldersIn(imp.input.entries))))
        /\ disk # imp.before =>
               /\ Includes(imp.steps, "validateZipEntries")
               /\ Includes(imp.steps, "setPermissions")
               /\ ~HasOutsideEntry(imp.input)
               /\ ~HasSymbolicLink(imp.input)
        /\ imp.pc = "returned" => \A d \in scratch : d.name # imp.temp
        /\ imp.caught # "none" => imp.pc = "returned" /\ imp.ret = Some(FALSE)

\* C30, its case: a call has merged a package after all its checks and has
\* returned true with its scratch directory removed.
C30_Witness ==
    /\ imp.pc = "returned"
    /\ imp.ret = Some(TRUE)
    /\ disk # imp.before
    /\ imp.steps = AllSteps(Cardinality(LibraryFoldersIn(imp.input.entries)))
    /\ \A d \in scratch : d.name # imp.temp

----------------------------------------------------------------------------
(* Claims about export and import together *)

\* The machine name and full version of the libraries in a set of directories.
PackagesOf(dirs) ==
    {<<d.libraryJson.machineName, d.libraryJson.majorVersion,
       d.libraryJson.minorVersion, d.libraryJson.patchVersion>> : d \in dirs}

\* The identity an export of a machine name is made for.
ExportedIdentity(libs, machineName) ==
    UberNameOf(The(getLibraryJson(libs, machineName, FALSE)))

\* The installed directories of the transitive closure of an identity.
InstalledClosure(libs, dirs, uberName) ==
    {d \in dirs : IsInstalled({d}, uberName)
                     \/ \E reached \in ReachableFrom(libs, dirs, uberName) :
                            IsInstalled({d}, reached)}

\* C7: when the archive exported for an installed identity has been imported
\* into an empty libraries folder, that folder holds exactly the installed
\* packages of the identity's transitive closure, each in its version.
C7_RoundTripYieldsClosure ==
    (out.op = "received" /\ imp.pc = "returned" /\ imp.ret = Some(TRUE)) =>
        PackagesOf(disk)
            = PackagesOf(InstalledClosure(
                             out.arg.snapshot, out.arg.source,
                             ExportedIdentity(out.arg.snapshot, out.arg.machineName)))

\* The installed directories among the uber names of a dependency list.
InstalledAmong(dirs, dependencyList) ==
    {d \in dirs : \E i \in 1..Len(dependencyList) : IsInstalled({d}, dependencyList[i])}

\* C13: createExport for the machine name of an installed library does not
\* throw, and the library folders in its archive are the installed
\* directories of what compileTotalDependencyList returns for the exported
\* identity: each dependency in the minor line named there, and none for a
\* minor line that is not installed.
C13_ShipsInstalledClosure ==
    out.op = "export" =>
        /\ ~out.thrown
        /\ LibraryDirectoriesIn(out.value)
               = InstalledAmong(
                     disk,
                     compileTotalDependencyList(
                         data, disk,
                         ExportedIdentity(data, out.arg.machineName)).value)

----------------------------------------------------------------------------
(* Claims about the exports directory *)

\* The machine name, major and minor version that the name of an export
\* file, machineName-major.minor.patch.h5p, stands for.
LineOfExport(name) ==
    LET parts == Split(SubSeq(name, 1, Len(name) - 1), "-")
        version == Split(parts[2], ".")
    IN  <<parts[1], StrToNum(version[1]), StrToNum(version[2])>>

LineOfLibrary(library) ==
    <<library.machineName, library.majorVersion, library.minorVersion>>

\* C14: when createExport has come to its end for a library, the exports
\* directory holds, for the minor line of that library, the one file named
\* after its machine name and major.minor.patch, and its files of every
\* other minor line and machine name are those from before the call.
C14_OneArtifactOthersUntouched ==
    (out.op = "export" /\ ~out.thrown) =>
        LET library == The(getLibraryJson(data, out.arg.machineName, FALSE))
            ofLine(files) == {f \in files : LineOfExport(f.name) = LineOfLibrary(library)}
        IN  /\ {f.name : f \in ofLine(exports)}
                   = {ExportFileName(library.machineName, library)}
            /\ exports \ ofLine(exports) = out.arg.before \ ofLine(out.arg.before)

----------------------------------------------------------------------------
(* Claims about lookups and removals *)

\* Whether the name of a directory is the machine name and the major.minor,
\* or major.minor.patch, of the library.json in it.
NameEncodesManifest(d) ==
    d.folderName \in
        {d.libraryJson.machineName \o <<"-">>
             \o MinorVersionString(d.libraryJson.majorVersion, d.libraryJson.minorVersion),
         d.libraryJson.machineName \o <<"-">> \o VersionString(d.libraryJson)}

\* C17: when getLibraryJson(., { exact: true }) has looked into a snapshot
\* that is what update() reads, the snapshot holds no library.json of a
\* directory whose name does not encode it, and what the lookup returned is
\* undefined or the library.json of a directory whose name encodes it.
C17_MisnamedIsNotInSnapshot ==
    (Fresh /\ out.op = "findExact") =>
        /\ \A d \in disk : ~NameEncodesManifest(d) => ~Includes(data, d.libraryJson)
        /\ IsDefined(out.value) =>
               \E d \in disk : NameEncodesManifest(d) /\ d.libraryJson = The(out.value)

\* The library.json files in the directories of a libraries folder that are
\* of the machine name and major.minor version of an uber name.
ManifestsOfLine(dirs, uberName) ==
    {d.libraryJson : d \in {x \in dirs : UberNameOf(x.libraryJson) = uberName}}

\* C18: getLibraryJson(., { exact: true }) on a snapshot that is what
\* update() reads returns, for a machine name and major.minor of which a
\* library is installed, a library.json of that machine name, major and
\* minor version, and undefined for one of which none is installed.
C18_FindExactIsExact ==
    (Fresh /\ out.op = "findExact") =>
        IF ManifestsOfLine(disk, out.arg) # {}
        THEN /\ IsDefined(out.value)
             /\ The(out.value) \in ManifestsOfLine(disk, out.arg)
             /\ UberNameOf(The(out.value)) = out.arg
        ELSE out.value = Undefined

\* C18 witness: the lookup of H5P.A 1.3 has returned undefined while
\* H5P.A 1.2 and H5P.A 1.20 are installed and H5P.A 1.3 is not.
C18_Witness ==
    /\ Fresh
    /\ out.op = "findExact"
    /\ out.arg = UberNameOf(Dependency("H5P.A", 1, 3))
    /\ out.value = Undefined
    /\ ManifestsOfLine(disk, UberNameOf(Dependency("H5P.A", 1, 2))) # {}
    /\ ManifestsOfLine(disk, UberNameOf(Dependency("H5P.A", 1, 20))) # {}

\* The installed libraries of a machine name that none exceeds in version.
GreatestOf(libs, machineName) ==
    {library \in InstalledOf(libs, machineName) :
        \A other \in InstalledOf(libs, machineName) :
            compareVersions(VersionString(library), VersionString(other)) >= 0}

\* The existing directories named machineName-major.minor after a library.
MinorFoldersOf(dirs, libraries) ==
    {library.machineName \o <<"-">>
         \o MinorVersionString(library.majorVersion, library.minorVersion) :
        library \in libraries} \cap FolderNames(dirs)

\* C19: getFolderPath on a snapshot that is what update() reads returns the
\* directory machineName-major.minor of the latest installed library of the
\* machine name asked for, whatever version was asked for, and undefined
\* when no library of the machine name is installed or that directory does
\* not exist.
C19_FolderOfLatestInstalled ==
    (Fresh /\ out.op = "folderPath") =>
        LET folders ==
                MinorFoldersOf(disk,
                               GreatestOf(data, decomposeUberName(out.arg).machineName))
        IN  IF folders = {} THEN out.value = Undefined
            ELSE IsDefined(out.value) /\ The(out.value) \in folders

\* The directories of a libraries folder for the machine name and
\* major.minor version of an uber name.
DirectoriesOfLine(dirs, uberName) ==
    {d \in dirs : UberNameOf(d.libraryJson) = uberName}

\* C20: in a libraries folder whose directory names encode their
\* library.json, `libraries remove` with a machine name and a major.minor
\* removes the directory of that minor line and no other, and with a machine
\* name alone of which more than one library is installed it removes nothing.
C20_RemoveDeletesExactlyThatLine ==
    (out.op = "remove" /\ \A d \in out.arg.before : NameEncodesManifest(d)) =>
        IF decomposeUberName(out.arg.uberName).majorVersion # Null
        THEN disk = out.arg.before \ DirectoriesOfLine(out.arg.before, out.arg.uberName)
        ELSE Cardinality({d \in out.arg.before :
                             d.libraryJson.machineName = out.arg.uberName}) > 1
                 => disk = out.arg.before

----------------------------------------------------------------------------
(* Claims about the update of the served data *)
----------------------------------------------------------------------------

\* A call of updateServedData that has written the lock file and has not
\* yet removed it: it is rewriting the hub registry or the exports.
UpdateInProgress(t) == upd.pc[t] \in {"locked", "registry", "cleared", "awaiting"}

\* C21: at most one execution of the served-data update is in progress at
\* any time, whether the updates come from the cron mirrors of the server
\* or from the update command.
C21_AtMostOneUpdateInProgress ==
    Cardinality({t \in UpdateTasks : UpdateInProgress(t)}) <= 1

----------------------------------------------------------------------------
(* Claims about the snapshot of a Libraries object and an import *)
----------------------------------------------------------------------------

\* The lookups of a Libraries object for an identity: the manifest found
\* for it, exactly and as the latest, and the folder path.
LookupsOn(libs, dirs, uberName) ==
    [findExact |-> getLibraryJson(libs, uberName, TRUE),
     findLatest |-> getLibraryJson(libs, uberName, FALSE),
     folderPath |-> getFolderPath(libs, dirs, uberName)]

\* C22: after an import that has changed the libraries folder, and before
\* update() is called on it, every lookup on a Libraries object built
\* before the import returns what it returned before the import.
C22_LookupsUnchangedUntilReload ==
    (imp.pc = "returned" /\ imp.ret = Some(TRUE) /\ ~imp.again /\ disk # imp.before)
        => \A uberName \in {<<"H5P.A">>, UberName("H5P.A", 1, 2), UberName("H5P.A", 1, 20)} :
               LookupsOn(data, disk, uberName) = LookupsOn(data, imp.before, uberName)

----------------------------------------------------------------------------
(* Claims about compareVersions and isNewerPatchVersion *)
----------------------------------------------------------------------------

\* The i-th number of a version, 0 when the version has none.
NumberAt(numbers, i) == IF i <= Len(numbers) THEN numbers[i] ELSE 0

\* The sign of the comparison of major, then minor, then patch.
SignOfComparison(first, second) ==
    IF NumberAt(first, 1) # NumberAt(second, 1)
    THEN (IF NumberAt(first, 1) > NumberAt(second, 1) THEN 1 ELSE -1)
    ELSE IF NumberAt(first, 2) # NumberAt(second, 2)
    THEN (IF NumberAt(first, 2) > NumberAt(second, 2) THEN 1 ELSE -1)
    ELSE IF NumberAt(first, 3) # NumberAt(second, 3)
    THEN (IF NumberAt(first, 3) > NumberAt(second, 3) THEN 1 ELSE -1)
    ELSE 0

\* C23: compareVersions(a, b) is the sign of the comparison of major, minor
\* and patch as numbers, a missing one counting as 0: 0 for equal versions
\* and for 1.2.0 against 1.2, 1 for 1.3.0 against 1.2.9, -1 for 1.2 against
\* 1.2.1, and 1 for 1.10 against 1.9.
C23_CompareVersionsIsNumericSign ==
    out.op = "compareVersions"
        => /\ out.value = SignOfComparison(out.arg.first, out.arg.second)
           /\ (out.arg.first = out.arg.second => out.value = 0)
           /\ (out.arg.first = <<1, 2, 0>> /\ out.arg.second = <<1, 2>> => out.value = 0)
           /\ (out.arg.first = <<1, 3, 0>> /\ out.arg.second = <<1, 2, 9>> => out.value = 1)
           /\ (out.arg.first = <<1, 2>> /\ out.arg.second = <<1, 2, 1>> => out.value = -1)
           /\ (out.arg.first = <<1, 10>> /\ out.arg.second = <<1, 9>> => out.value = 1)

\* C23, its case: 1.10 has been compared with 1.9 and found greater.
C23_Witness ==
    /\ out.op = "compareVersions"
    /\ out.arg = [first |-> <<1, 10>>, second |-> <<1, 9>>]
    /\ out.value = 1

\* Whether two versions differ in their major or in their minor version,
\* one of them having none included.
OtherMinorLine(old, candidate) ==
    \/ old[1] # candidate[1]
    \/ (Len(old) >= 2) # (Len(candidate) >= 2)
    \/ Len(old) >= 2 /\ Len(candidate) >= 2 /\ old[2] # candidate[2]

\* C24: isNewerPatch(old, candidate) is true exactly when major and minor
\* are the same and the patch of the candidate is greater than that of
\* old; it is false whenever major or minor differ.
C24_NewerPatchIffSameLineGreaterPatch ==
    out.op = "isNewerPatchVersion"
        => /\ (OtherMinorLine(out.arg.first, out.arg.second) => out.value = FALSE)
           /\ (Len(out.arg.first) = 3 /\ Len(out.arg.second) = 3
                   => out.value = (/\ out.arg.first[1] = out.arg.second[1]
                                   /\ out.arg.first[2] = out.arg.second[2]
                                   /\ out.arg.second[3] > out.arg.first[3]))

\* C24, its case: 1.2.9 has been found to be a newer patch of 1.2.3.
C24_Witness ==
    /\ out.op = "isNewerPatchVersion"
    /\ out.arg = [first |-> <<1, 2, 3>>, second |-> <<1, 2, 9>>]
    /\ out.value = TRUE

----------------------------------------------------------------------------
(* Claims about the mirror command *)
----------------------------------------------------------------------------

\* Whether the version of a remote item is greater than that of a library.
RemoteIsGreater(version, libraryJson) ==
    \/ version.major > libraryJson.majorVersion
    \/ /\ version.major = libraryJson.majorVersion
       /\ version.minor > libraryJson.minorVersion
    \/ /\ version.major = libraryJson.majorVersion
       /\ version.minor = libraryJson.minorVersion
       /\ version.patch > libraryJson.patchVersion

\* C26: a mirror run calls import for a remote content type only if no
\* version of its machine name was installed or its version is greater than
\* every installed version of that machine name; for any other remote
\* content type the installed directories are those from before.
C26_ImportsOnlyNewerContentTypes ==
    out.op \in {"importing", "processed"} =>
        /\ out.arg.imported =>
               \A d \in out.arg.before :
                   d.libraryJson.machineName = out.arg.item.id
                       => RemoteIsGreater(out.arg.item.version, d.libraryJson)
        /\ ~out.arg.imported => disk = out.arg.before

\* C26, its case: with two versions of the machine name installed, a remote
\* version between the two has been left alone, and (in another run) a
\* remote version above the installed one has been imported.
C26_Witness ==
    /\ out.op = "processed"
    /\ \/ /\ ~out.arg.imported
          /\ \E d, e \in out.arg.before :
                 /\ RemoteIsGreater(out.arg.item.version, d.libraryJson)
                 /\ ~RemoteIsGreater(out.arg.item.version, e.libraryJson)
       \/ /\ out.arg.imported
          /\ out.arg.before # {}
          /\ disk # out.arg.before

----------------------------------------------------------------------------
(* Claims about operations that fail *)
----------------------------------------------------------------------------

\* Whether a store holds a library with the machine name and version of an
\* identity of the archive, in the folder of that name.
HoldsIdentity(dirs, identity) ==
    \E d \in dirs :
        /\ d.folderName = identity.folderName
        /\ d.libraryJson.machineName = identity.machineName
        /\ VersionString(d.libraryJson) = identity.version

\* Whether the turn of an identity moves its folder: no library of its
\* machine name found for it has the same version.
IsMoved(identity, localMapping) ==
    ~ /\ IsDefined(FindLocalIdentity(localMapping, identity))
      /\ The(FindLocalIdentity(localMapping, identity)).version = identity.version

C32_FailedExportCleansUp ==
    out.op = "exportFailed" =>
        /\ out.thrown
        /\ exports \subseteq out.arg.before
        /\ \A s \in scratch : s.name = out.arg.temp => s.files = {}

----------------------------------------------------------------------------
(* Claims about the manifest *)
----------------------------------------------------------------------------

\* The machine names installed as runnable content types.
RunnableInstalled(dirs) ==
    {d.libraryJson.machineName : d \in {e \in dirs : e.libraryJson.runnable = 1}}

\* C33: after updateManifest, manifest.json, in memory and in the file, has
\* an entry for every machine name installed as a runnable content type and
\* for no other machine name.
C33_ManifestHasTheInstalledContentTypes ==
    out.op = "updateManifest" =>
        /\ Range(getMachineNames(manifest.file)) = RunnableInstalled(disk)
        /\ Range(getMachineNames(manifest.data)) = RunnableInstalled(disk)

----------------------------------------------------------------------------
(* Claims about scratch directories *)
----------------------------------------------------------------------------

\* C34: while an import is in flight, from createTempFolder to its own
\* removal of the scratch directory, that directory exists: nothing else
\* has deleted it.
C34_ScratchOfImportInFlightIsLeftAlone ==
    imp.pc \in {"created", "materialized", "validated", "extracted", "permitted", "mapped"}
        => TempFolderExists

----------------------------------------------------------------------------
(* Claims about the lock file of the update *)
----------------------------------------------------------------------------

\* C35: the lock file is there only while an update that has created it is
\* running: no update that has ended, by returning or by throwing, has left
\* it behind.
C35_NoLockLeftBehind ==
    upd.lock => \E t \in UpdateTasks : UpdateInProgress(t)

----------------------------------------------------------------------------
(* Claims about update() that throws *)
----------------------------------------------------------------------------

\* C36: update() has thrown exactly when a library.json of the folder could
\* not be parsed, and then the snapshot is what it was before the call.
C36_FailedUpdateKeepsSnapshot ==
    out.op = "update" =>
        /\ out.thrown <=> \E d \in disk : ReadThrows(d)
        /\ out.thrown => data = out.arg.before

\* C36, its case: update() has thrown on a folder in which another
\* library.json can be parsed, and the snapshot it keeps is not empty.
C36_Witness ==
    /\ out.op = "update"
    /\ out.thrown
    /\ data # <<>>
    /\ \E d \in disk : ~ReadThrows(d)

----------------------------------------------------------------------------
(* Claims about getDependencies for a machine name *)
----------------------------------------------------------------------------

\* C37: for an installed library, getDependencies called with the machine
\* name alone returns the set it returns for the machine name with the
\* major.minor of the latest installed version of that machine name.
C37_ByNameIsByLatestVersion ==
    (/\ out.op = "dependencies"
     /\ decomposeUberName(out.arg.uberName).majorVersion = Null
     /\ InstalledOf(data, out.arg.uberName) # {})
        => /\ ~out.thrown
           /\ \A latest \in GreatestOf(data, out.arg.uberName) :
                  Range(out.value)
                      = Range(getDependencies(data, disk, UberNameOf(latest),
                                              out.arg.type).value)


----------------------------------------------------------------------------
(* Claims about the closure of an identity that is not installed *)
----------------------------------------------------------------------------

\* C38: compileTotalDependencyList and checkForConflictingDependencies, called
\* for an identity with a major.minor that names no installed library.json,
\* return a result and do not throw.
C38_UnresolvedClosureDoesNotThrow ==
    /\ (cl.pc # "idle" /\ ~IsDefined(getLibraryJson(data, cl.root, TRUE)))
           => cl.pc # "thrown"
    /\ (out.op = "conflicts" /\ ~IsDefined(getLibraryJson(data, out.arg, TRUE)))
           => ~out.thrown


----------------------------------------------------------------------------
(* Claims about Exporter.compileDependencies *)
----------------------------------------------------------------------------

\* The identities a store names: its libraries and whatever their
\* library.json and semantics.json files refer to.
NamedIn(dirs) ==
    UNION {{UberNameOf(d.libraryJson)} \cup DeclaredIn(d) \cup EmbeddedIn(d) : d \in dirs}

\* C39: compileDependencies returns for every store, also one in which
\* libraries depend on each other, and the array `checked` all its
\* activations share holds each identity at most once: every entry is a
\* `machineName major.minor` the store names, and no entry occurs twice, so
\* the number of activations is at most the number of identities named.
C39_CompileDependenciesPushesOnce ==
    out.op = "compiled" =>
        /\ ~out.thrown
        /\ NoDuplicates(out.checked)
        /\ Range(out.checked) \subseteq NamedIn(disk)
        /\ Len(out.checked) <= Cardinality(NamedIn(disk))
        /\ out.checked[1] = getUbernameForMinorVersion(data, out.arg).value
        /\ Range(out.checked) \subseteq Range(out.value)

\* C39 witness: H5P.A 1.0 and H5P.B 2.0 depend on each other, and the call
\* for H5P.A has pushed both, and H5P.C in two versions.
C39_Witness ==
    /\ out.op = "compiled"
    /\ out.arg = <<"H5P.A">>
    /\ \E a, b \in disk :
           /\ UberNameOf(a.libraryJson) = UberName("H5P.A", 1, 0)
           /\ UberNameOf(b.libraryJson) = UberName("H5P.B", 2, 0)
           /\ UberName("H5P.B", 2, 0) \in DeclaredIn(a)
           /\ UberName("H5P.A", 1, 0) \in DeclaredIn(b)
    /\ {UberName("H5P.A", 1, 0), UberName("H5P.B", 2, 0),
        UberName("H5P.C", 1, 0), UberName("H5P.C", 2, 0)} \subseteq Range(out.checked)

============================================================================
